---- MODULE Spec2Model ----
(***************************************************************************)
(* GitHub Classroom -> Supabase synchronisation                            *)
(* (b4os-backend/src/lib/classroom_sync.py, class ClassroomSupabaseSync).  *)
(*                                                                         *)
(* One sync run is a state machine: resolve the classroom, list the        *)
(* assignments, process every assignment in memory (download the extract,  *)
(* slug the name, resolve points_available, look every new student's       *)
(* repository up), then write assignments, students and grades to the      *)
(* store and refresh the leaderboard (read three tables, rank, clear,      *)
(* insert in batches).  Every call of the store is one step.               *)
(*                                                                         *)
(* Encodings.  A python str is a sequence of one-character strings.  A     *)
(* value that may be None/NaN is a tagged record [k, v].  A store table is *)
(* a set of rows; the store's upsert and insert decide what a write does.  *)
(***************************************************************************)
EXTENDS Integers, Sequences, FiniteSets, TLC

(***************************************************************************)
(* Values                                                                  *)
(***************************************************************************)
\* None and NaN (pandas reads an empty cell as NaN; the store holds NULL).
Null == [k |-> "null", v |-> 0]
\* A number.
N(x) == [k |-> "int", v |-> x]
\* A cell that is text and no number ("abc"): int() raises ValueError.
NotANumber == [k |-> "str", v |-> 0]
\* The float infinity (pandas reads "inf"): int() raises OverflowError.
Infinity == [k |-> "inf", v |-> 0]

IsNull(c) == c.k = "null"
IsInt(c) == c.k = "int"
\* Python truthiness of a cell: None, NaN-as-None and 0 are falsy in the places
\* the code tests a store value.
Truthy(c) == IF c.k = "int" THEN c.v # 0 ELSE c.k # "null"

\* A timestamp as the GitHub API or the store returns it: an ISO string
\* (here the minutes since an epoch: TLC's integers have 32 bits), a string
\* that does not parse, or None.
T(x) == [k |-> "ts", t |-> x]
TBad == [k |-> "bad", t |-> 0]
TNull == [k |-> "null", t |-> 0]

(***************************************************************************)
(* Strings                                                                 *)
(***************************************************************************)
\* The characters of the model in code-point order.
Alphabet == <<" ", "!", "-", "1", "2", "A", "B", "L", "P", "a", "b", "l", "p", "r", "t">>

Code(c) == CHOOSE i \in 1..Len(Alphabet) : Alphabet[i] = c

\* str < str in python: lexicographic by code point, a proper prefix first.
RECURSIVE StrLess(_, _)
StrLess(s, t) ==
  IF t = <<>> THEN FALSE
  ELSE IF s = <<>> THEN TRUE
  ELSE IF Head(s) # Head(t) THEN Code(Head(s)) < Code(Head(t))
  ELSE StrLess(Tail(s), Tail(t))

IsSpace(c) == c = " "

RECURSIVE LStrip(_)
LStrip(s) == IF s # <<>> /\ IsSpace(Head(s)) THEN LStrip(Tail(s)) ELSE s

RECURSIVE RStrip(_)
RStrip(s) ==
  IF s # <<>> /\ IsSpace(s[Len(s)]) THEN RStrip(SubSeq(s, 1, Len(s) - 1)) ELSE s

\* str.strip()
Strip(s) == RStrip(LStrip(s))

\* needle in s
Contains(s, needle) ==
  \E i \in 1..(Len(s) - Len(needle) + 1) : SubSeq(s, i, i + Len(needle) - 1) = needle

Lower(c) ==
  CASE c = "A" -> "a"
    [] c = "B" -> "b"
    [] c = "L" -> "l"
    [] c = "P" -> "p"
    [] OTHER -> c

IsSlugChar(c) == c \in {"a", "b", "l", "p", "r", "t", "1", "2", " ", "-"}

RECURSIVE MapLower(_)
MapLower(s) == IF s = <<>> THEN <<>> ELSE <<Lower(Head(s))>> \o MapLower(Tail(s))

\* re.sub(r'[^a-z0-9\s-]', '', s)
RECURSIVE DropSpecial(_)
DropSpecial(s) ==
  IF s = <<>> THEN <<>>
  ELSE (IF IsSlugChar(Head(s)) THEN <<Head(s)>> ELSE <<>>) \o DropSpecial(Tail(s))

\* re.sub(r'\s+', '-', s)
RECURSIVE SpacesToHyphen(_)
SpacesToHyphen(s) ==
  IF s = <<>> THEN <<>>
  ELSE IF IsSpace(Head(s)) THEN <<"-">> \o SpacesToHyphen(LStrip(s))
  ELSE <<Head(s)>> \o SpacesToHyphen(Tail(s))

\* re.sub(r'-+', '-', s)
RECURSIVE CollapseHyphens(_)
CollapseHyphens(s) ==
  IF s = <<>> THEN <<>>
  ELSE IF Head(s) = "-" /\ Len(s) > 1 /\ s[2] = "-" THEN CollapseHyphens(Tail(s))
  ELSE <<Head(s)>> \o CollapseHyphens(Tail(s))

RECURSIVE LStripHyphen(_)
LStripHyphen(s) == IF s # <<>> /\ Head(s) = "-" THEN LStripHyphen(Tail(s)) ELSE s

RECURSIVE RStripHyphen(_)
RStripHyphen(s) ==
  IF s # <<>> /\ s[Len(s)] = "-" THEN RStripHyphen(SubSeq(s, 1, Len(s) - 1)) ELSE s

\* format_assignment_name: [ok |-> FALSE] is DataValidationError (an empty name).
format_assignment_name(name) ==
  IF name = <<>> THEN [ok |-> FALSE, name |-> <<>>]
  ELSE [ok |-> TRUE,
        name |-> RStripHyphen(LStripHyphen(CollapseHyphens(SpacesToHyphen(
                   DropSpecial(MapLower(name))))))]

(***************************************************************************)
(* Sequences and sets                                                      *)
(***************************************************************************)
Range(s) == {s[i] : i \in 1..Len(s)}

RECURSIVE SumSeq(_)
SumSeq(s) == IF s = <<>> THEN 0 ELSE Head(s) + SumSeq(Tail(s))

\* The sequences of distinct elements of S of length at most n.
RECURSIVE DistinctSeqs(_, _)
DistinctSeqs(S, n) ==
  IF n = 0 THEN {<<>>}
  ELSE LET shorter == DistinctSeqs(S, n - 1) IN
       shorter \cup UNION {{Append(p, x) : x \in S \ Range(p)} :
                              p \in {q \in shorter : Len(q) = n - 1}}

\* The sequences over S of length at most n.
RECURSIVE SeqsUpTo(_, _)
SeqsUpTo(S, n) ==
  IF n = 0 THEN {<<>>}
  ELSE LET shorter == SeqsUpTo(S, n - 1) IN
       shorter \cup {Append(q, x) : q \in {p \in shorter : Len(p) = n - 1}, x \in S}

(***************************************************************************)
(* Record Normalizer: points_available of an assignment                    *)
(* (process_assignments_in_memory, lines 774-800)                          *)
(***************************************************************************)
PartTwo == <<"p", "a", "r", "t", "-", "2">>
PartTwoDefaultPoints == 100

\* df['points_available'].max(): pandas skips NaN; NaN when every cell is NaN.
RECURSIVE ColumnMax(_)
ColumnMax(col) ==
  IF col = <<>> THEN Null
  ELSE LET rest == ColumnMax(Tail(col)) IN
       IF IsNull(Head(col)) THEN rest
       ELSE IF IsNull(rest) THEN Head(col)
       ELSE IF Head(col).v >= rest.v THEN Head(col) ELSE rest

\* df[df['points_available'] > 0]['points_available']
NonZeroPoints(col) == SelectSeq(col, LAMBDA c : IsInt(c) /\ c.v > 0)

\* The bug the comment of line 774 names: the first record instead of the max.
FirstRecordPoints(col, formatted_name) == Head(col)

\* The default of line 788 given to every assignment, whatever its slug.
ResolveDefaultForAll(col, formatted_name) ==
  LET points_available == ColumnMax(col) IN
  IF (IsInt(points_available) /\ points_available.v = 0) \/ IsNull(points_available)
  THEN IF NonZeroPoints(col) # <<>> THEN NonZeroPoints(col)[1]
       ELSE N(PartTwoDefaultPoints)
  ELSE points_available

\* The assignment's points_available: the column's max; when that is 0 or NaN
\* the first strictly positive cell; failing that 100 for a 'part-2' slug and
\* None otherwise.
ResolvePointsAvailable(col, formatted_name) ==
  LET points_available == ColumnMax(col) IN
  IF (IsInt(points_available) /\ points_available.v = 0) \/ IsNull(points_available)
  THEN IF NonZeroPoints(col) # <<>> THEN NonZeroPoints(col)[1]
       ELSE IF Contains(formatted_name, PartTwo) THEN N(PartTwoDefaultPoints)
       ELSE Null
  ELSE points_available

(***************************************************************************)
(* Repository Lifecycle Resolver                                           *)
(***************************************************************************)
\* total_seconds() / 3600, the model's clock counting minutes.
MinutesPerHour == 60

\* int(x / y) for y > 0: python's int() truncates toward zero.
TruncDiv(x, y) == IF x >= 0 THEN x \div y ELSE -((-x) \div y)

\* calculate_resolution_time: None when a timestamp is missing or does not
\* parse, else the truncated hours between the two.
calculate_resolution_time(created_at, updated_at) ==
  IF created_at.k = "null" \/ updated_at.k = "null" THEN Null
  ELSE IF created_at.k = "bad" \/ updated_at.k = "bad" THEN Null
  ELSE N(TruncDiv(updated_at.t - created_at.t, MinutesPerHour))

(***************************************************************************)
(* The GitHub side: repositories, extracts, the assignment listing         *)
(***************************************************************************)
\* A cell of the github_username column.
U(s) == [k |-> "str", s |-> s]
UNull == [k |-> "null", s |-> <<>>]

\* A cell of the student_repository_url column: an empty cell (NaN), a string
\* that is no owner/repo URL, or the URL of a repository.
UrlNaN == [k |-> "nan", id |-> ""]
UrlMalformed == [k |-> "malformed", id |-> ""]
Url(id) == [k |-> "repo", id |-> id]
\* row.get('student_repository_url', '') when the extract has no such column.
UrlEmpty == [k |-> "empty", id |-> ""]

Hours(h) == h * MinutesPerHour

\* What GET /repos/{owner}/{repo} answers for each repository of the model;
\* status 0 stands for a request that times out (RequestException).
GitHubAPI(id) ==
  CASE id = "F1" -> [status |-> 200, created_at |-> T(0), updated_at |-> T(Hours(1)), fork |-> TRUE]
    [] id = "F2" -> [status |-> 200, created_at |-> T(0), updated_at |-> T(Hours(2)), fork |-> TRUE]
    [] id = "F2b" -> [status |-> 200, created_at |-> T(30), updated_at |-> T(Hours(3) - 1), fork |-> TRUE]
    [] id = "FBIG" -> [status |-> 200, created_at |-> T(0), updated_at |-> T(Hours(1000000)), fork |-> TRUE]
    [] id = "FNEG" -> [status |-> 200, created_at |-> T(90), updated_at |-> T(0), fork |-> TRUE]
    [] id = "FBAD" -> [status |-> 200, created_at |-> TBad, updated_at |-> T(Hours(1)), fork |-> TRUE]
    [] id = "NF" -> [status |-> 200, created_at |-> T(0), updated_at |-> T(Hours(1)), fork |-> FALSE]
    [] id = "R403" -> [status |-> 403, created_at |-> TNull, updated_at |-> TNull, fork |-> FALSE]
    [] id = "RTO" -> [status |-> 0, created_at |-> TNull, updated_at |-> TNull, fork |-> FALSE]
    [] OTHER -> [status |-> 404, created_at |-> TNull, updated_at |-> TNull, fork |-> FALSE]

NoRepoInfo == [ok |-> FALSE, created_at |-> TNull, updated_at |-> TNull, is_fork |-> FALSE]

\* get_repository_info: None ([ok |-> FALSE]) for a URL that is no string or
\* not owner/repo, and for every status but 200.
get_repository_info(repo_url) ==
  IF repo_url.k \in {"nan", "empty"} THEN NoRepoInfo
  ELSE IF repo_url.k = "malformed" THEN NoRepoInfo
  ELSE LET response == GitHubAPI(repo_url.id) IN
       IF response.status = 200
       THEN [ok |-> TRUE, created_at |-> response.created_at,
             updated_at |-> response.updated_at, is_fork |-> response.fork]
       ELSE NoRepoInfo

Row(u, awarded, available, url) ==
  [github_username |-> u, points_awarded |-> awarded, points_available |-> available,
   student_repository_url |-> url]

RequiredColumns == {"github_username", "points_awarded", "points_available"}
AllColumns == RequiredColumns \cup {"student_repository_url"}

ua == <<"a">>
uab == <<"a", "b">>
uB == <<"B">>

Extract(columns, rows) == [columns |-> columns, rows |-> rows]

\* The grade extracts of the model (gh classroom assignment-grades).
XTies == Extract(AllColumns,
  <<Row(U(ua), N(50), N(100), Url("F2")), Row(U(uab), N(50), N(100), Url("F2b")),
    Row(U(uB), N(100), N(100), Url("F2"))>>)
XMixed == Extract(AllColumns,
  <<Row(U(ua), N(100), N(100), Url("F1")), Row(U(uB), Null, N(100), Url("NF"))>>)
XZero == Extract(AllColumns,
  <<Row(U(ua), N(50), N(0), Url("F2")), Row(U(uab), N(0), N(0), Url("R404"))>>)
XNaN == Extract(AllColumns,
  <<Row(U(ua), N(50), Null, UrlNaN), Row(U(uB), N(0), Null, UrlMalformed)>>)
XBig == Extract(AllColumns,
  <<Row(U(ua), N(100), N(100), Url("FBIG")), Row(U(uab), N(50), N(100), Url("R403"))>>)
XStr == Extract(AllColumns,
  <<Row(U(ua), NotANumber, N(0), Url("F2")), Row(U(uab), N(50), N(50), Url("F1"))>>)
XInf == Extract(AllColumns,
  <<Row(U(ua), Infinity, N(100), Url("F2")), Row(U(uab), N(50), N(100), Url("F2"))>>)
XNoUrl == Extract(RequiredColumns,
  <<Row(U(ua), N(50), N(100), UrlEmpty), Row(U(uab), N(0), N(50), UrlEmpty)>>)
XDup == Extract(AllColumns,
  <<Row(U(<<" ", "a">>), N(50), N(100), Url("FNEG")), Row(U(ua), N(100), N(50), Url("F1"))>>)
XBadTs == Extract(AllColumns, <<Row(U(ua), N(50), N(100), Url("FBAD"))>>)
XNullUser == Extract(AllColumns,
  <<Row(U(ua), N(50), N(100), Url("F1")), Row(UNull, N(50), N(100), UrlNaN)>>)

NameLab == <<"L", "a", "b", " ", "1">>
NamePart2 == <<"P", "a", "r", "t", " ", "2">>
NamePart2Bang == <<"p", "a", "r", "t", "-", "2", "!">>
NameBang == <<"!">>

Assignment(id, name, extract) == [id |-> id, name |-> name, extract |-> extract]

\* A line of the assignment listing with fewer than seven tab-separated fields.
ShortLine == [id |-> 0, name |-> <<>>, extract |-> Extract(AllColumns, <<>>)]

\* The listing starts with three header lines (line 249) and is read only
\* when it has four lines or more (line 245).
HeaderLines == 3
MinListingLines == 4

\* The assignments a classroom of the model may list: (assignment_id,
\* assignment_name) as _parse_assignments_list returns them, with the extract
\* the download of that assignment gives.
Catalog ==
  {Assignment(1, NameLab, XTies), Assignment(2, NamePart2, XMixed),
   Assignment(3, NamePart2, XZero), Assignment(4, NameLab, XZero),
   Assignment(5, NameLab, XNaN), Assignment(6, NamePart2, XBig),
   Assignment(7, NameLab, XStr), Assignment(8, NamePart2, XInf),
   Assignment(9, NameLab, XNoUrl), Assignment(10, NamePart2Bang, XDup),
   Assignment(11, NameLab, XBadTs), Assignment(12, NamePart2, XNullUser),
   Assignment(13, NameBang, XMixed)}

\* _validate_grades_dataframe: TRUE when it raises DataValidationError.
ValidationFails(df) ==
  \/ ~(RequiredColumns \subseteq df.columns)
  \/ df.rows = <<>>
  \/ \E i \in 1..Len(df.rows) : df.rows[i].github_username.k = "null"

(***************************************************************************)
(* The store (Supabase/PostgREST over Postgres)                            *)
(***************************************************************************)
\* The key of a row or of a write record: its values in the key columns.
KeyOf(row, cols) == [c \in cols |-> row[c]]

\* A write record over the stored row (or over the column defaults): the
\* columns the record names are set, the others are kept.
Merge(row, record) ==
  [c \in DOMAIN row |-> IF c \in DOMAIN record THEN record[c] ELSE row[c]]

HasDuplicateKeys(records, cols) ==
  \E i, j \in 1..Len(records) : i < j /\ KeyOf(records[i], cols) = KeyOf(records[j], cols)

UpsertRow(table, record, cols, defaults) ==
  IF \E row \in table : KeyOf(row, cols) = KeyOf(record, cols)
  THEN {IF KeyOf(row, cols) = KeyOf(record, cols) THEN Merge(row, record) ELSE row :
          row \in table}
  ELSE table \cup {Merge(defaults, record)}

RECURSIVE UpsertRows(_, _, _, _)
UpsertRows(table, records, cols, defaults) ==
  IF records = <<>> THEN table
  ELSE UpsertRows(UpsertRow(table, Head(records), cols, defaults), Tail(records),
                  cols, defaults)

\* A write that replaces the table by the records.
StoreReplace(table, records, cols, defaults) ==
  IF HasDuplicateKeys(records, cols) THEN [ok |-> FALSE, table |-> table]
  ELSE [ok |-> TRUE, table |-> UpsertRows({}, records, cols, defaults)]

\* table.upsert(records, on_conflict=cols): INSERT ... ON CONFLICT (cols) DO
\* UPDATE, one statement.  Postgres rejects a statement that touches one row
\* twice, so a write set with a repeated key fails as a whole.
StoreUpsert(table, records, cols, defaults) ==
  IF HasDuplicateKeys(records, cols) THEN [ok |-> FALSE, table |-> table]
  ELSE [ok |-> TRUE, table |-> UpsertRows(table, records, cols, defaults)]

\* table.insert(records): one INSERT; a record whose key is already in the
\* table (or twice in the statement) violates the key and nothing is written.
StoreInsert(table, records, cols, defaults) ==
  IF \/ HasDuplicateKeys(records, cols)
     \/ \E i \in 1..Len(records) : \E row \in table :
          KeyOf(row, cols) = KeyOf(records[i], cols)
  THEN [ok |-> FALSE, table |-> table]
  ELSE [ok |-> TRUE, table |-> table \cup {Merge(defaults, records[i]) : i \in 1..Len(records)}]

\* The rows of a table in every order a SELECT without ORDER BY may give.
RECURSIVE Orderings(_)
Orderings(S) ==
  IF S = {} THEN {<<>>}
  ELSE UNION {{<<x>> \o rest : rest \in Orderings(S \ {x})} : x \in S}

\* One of them, for the reads whose order the code never depends on.
RECURSIVE SetToSeq(_)
SetToSeq(S) ==
  IF S = {} THEN <<>>
  ELSE LET x == CHOOSE y \in S : TRUE IN <<x>> \o SetToSeq(S \ {x})

StudentKey == {"github_username"}
AssignmentKey == {"name"}
GradeKey == {"github_username", "assignment_name"}
LeaderboardKey == {"github_username"}

\* The column defaults of a new students row; has_fork takes the default the
\* schema declares (the sync never writes the column).
StudentDefaults(default_has_fork) ==
  [github_username |-> <<>>, fork_created_at |-> TNull, last_updated_at |-> TNull,
   resolution_time_hours |-> Null, has_fork |-> default_has_fork, updated_at |-> 0]
AssignmentDefaults == [name |-> <<>>, points_available |-> Null, updated_at |-> 0]
GradeDefaults ==
  [github_username |-> <<>>, assignment_name |-> <<>>, points_awarded |-> Null,
   updated_at |-> 0]
LeaderboardDefaults ==
  [github_username |-> <<>>, fork_created_at |-> TNull, last_updated_at |-> TNull,
   resolution_time_hours |-> Null, has_fork |-> FALSE, total_score |-> 0,
   total_possible |-> 0, percentage |-> 0, assignments_completed |-> 0,
   ranking_position |-> 0]

(***************************************************************************)
(* Leaderboard Ranker (refresh_admin_leaderboard, lines 450-518)           *)
(***************************************************************************)
\* round(n / d) for d > 0: python rounds a half to the even neighbour.
RoundHalfEven(n, d) ==
  LET q == n \div d
      r == n % d
  IN IF 2 * r < d THEN q
     ELSE IF 2 * r > d THEN q + 1
     ELSE IF q % 2 = 0 THEN q ELSE q + 1

\* assignment_points.get(name, 0), where assignment_points keeps the
\* assignments whose points_available is truthy (not None, not 0).
AssignmentPointsGet(assignments_data, name) ==
  LET hits == SelectSeq(assignments_data,
                        LAMBDA a : a.name = name /\ Truthy(a.points_available))
  IN IF hits = <<>> THEN 0 ELSE hits[Len(hits)].points_available.v

\* [g for g in grades_result.data if g['github_username'] == github_username]
StudentGrades(grades_data, github_username) ==
  SelectSeq(grades_data, LAMBDA g : g.github_username = github_username)

\* sum(grade['points_awarded'] for grade in student_grades if grade['points_awarded'])
TotalScore(student_grades) ==
  SumSeq([i \in 1..Len(student_grades) |->
            IF Truthy(student_grades[i].points_awarded)
            THEN student_grades[i].points_awarded.v ELSE 0])

TotalPossible(student_grades, assignments_data) ==
  SumSeq([i \in 1..Len(student_grades) |->
            AssignmentPointsGet(assignments_data, student_grades[i].assignment_name)])

Percentage(total_score, total_possible) ==
  IF total_possible > 0 THEN RoundHalfEven(total_score * 100, total_possible) ELSE 0

\* A count of the grade records that have points: what the comment of line 468
\* rules out.
CountScoredGrades(student_grades) ==
  Len(SelectSeq(student_grades, LAMBDA g : Truthy(g.points_awarded)))

\* len(set(grade['assignment_name'] for grade in student_grades))
AssignmentsCompleted(student_grades) ==
  Cardinality({student_grades[i].assignment_name : i \in 1..Len(student_grades)})

\* The resolution time computed whatever has_fork says.
ResolutionAlways(student) ==
  calculate_resolution_time(student.fork_created_at, student.last_updated_at)

\* Lines 472-480: the resolution time only of a student that has a fork.
ResolutionOfStudent(student) ==
  IF student.has_fork
  THEN calculate_resolution_time(student.fork_created_at, student.last_updated_at)
  ELSE Null

\* The leaderboard_data entry of one students row (lines 456-492).
LeaderboardEntry(student, grades_data, assignments_data) ==
  LET student_grades == StudentGrades(grades_data, student.github_username)
      total_score == TotalScore(student_grades)
      total_possible == TotalPossible(student_grades, assignments_data)
  IN [github_username |-> student.github_username,
      fork_created_at |-> student.fork_created_at,
      last_updated_at |-> student.last_updated_at,
      resolution_time_hours |-> ResolutionOfStudent(student),
      has_fork |-> student.has_fork,
      total_score |-> total_score,
      total_possible |-> total_possible,
      percentage |-> Percentage(total_score, total_possible),
      assignments_completed |-> AssignmentsCompleted(student_grades)]

NoResolutionSentinel == 999999

\* x['resolution_time_hours'] if x['resolution_time_hours'] is not None else 999999
ResolutionKey(x) ==
  IF IsNull(x.resolution_time_hours) THEN NoResolutionSentinel
  ELSE x.resolution_time_hours.v

\* The sort key reduced to its first component.
KeyLessResolutionOnly(x, y) == ResolutionKey(x) < ResolutionKey(y)

\* The sort key without its last component.
KeyLessNoUsername(x, y) ==
  \/ ResolutionKey(x) < ResolutionKey(y)
  \/ /\ ResolutionKey(x) = ResolutionKey(y)
     /\ -x.percentage < -y.percentage

\* key(x) < key(y) for the key of lines 498-502, python comparing the tuples
\* (resolution or 999999, -percentage, github_username) component by component.
KeyLess(x, y) ==
  \/ ResolutionKey(x) < ResolutionKey(y)
  \/ /\ ResolutionKey(x) = ResolutionKey(y)
     /\ \/ -x.percentage < -y.percentage
        \/ /\ -x.percentage = -y.percentage
           /\ StrLess(x.github_username, y.github_username)

\* list.sort(key=...): stable, so an entry goes after the entries it does not
\* precede.
RECURSIVE InsertSorted(_, _)
InsertSorted(sorted, x) ==
  IF sorted = <<>> THEN <<x>>
  ELSE IF KeyLess(x, Head(sorted)) THEN <<x>> \o sorted
  ELSE <<Head(sorted)>> \o InsertSorted(Tail(sorted), x)

\* The entries left in the order the students were read in.
SortLeaderboardAsRead(data) == data

RECURSIVE SortLeaderboard(_)
SortLeaderboard(data) ==
  IF data = <<>> THEN <<>>
  ELSE InsertSorted(SortLeaderboard(SubSeq(data, 1, Len(data) - 1)), data[Len(data)])

\* Positions that start at 0: enumerate without its start argument.
RankingPositionFromZero(i) == i - 1

\* for i, student in enumerate(leaderboard_data, 1): the position of the i-th
\* entry of the sorted list.
RankingPosition(i) == i

AddRankingPositions(sorted) ==
  [i \in 1..Len(sorted) |-> sorted[i] @@ [ranking_position |-> RankingPosition(i)]]

\* leaderboard_data after lines 456-518, from the three reads.
ComputeLeaderboard(students_data, grades_data, assignments_data) ==
  AddRankingPositions(SortLeaderboard(
    [i \in 1..Len(students_data) |->
       LeaderboardEntry(students_data[i], grades_data, assignments_data)]))

(***************************************************************************)
(* In-memory processing of one assignment                                  *)
(* (process_assignments_in_memory, lines 763-871)                          *)
(***************************************************************************)
\* The students_with_repo_info entry of a student (lines 819-859).
StudentInfo(github_username, repo_info) ==
  IF repo_info.ok /\ repo_info.is_fork
  THEN [github_username |-> github_username,
        fork_created_at |-> repo_info.created_at,
        last_updated_at |-> repo_info.updated_at,
        resolution_time_hours |->
          calculate_resolution_time(repo_info.created_at, repo_info.updated_at),
        has_fork |-> TRUE]
  ELSE [github_username |-> github_username, fork_created_at |-> TNull,
        last_updated_at |-> TNull, resolution_time_hours |-> Null, has_fork |-> FALSE]

\* bool(student_repo_url): '' is falsy, NaN and every other string are truthy.
UrlTruthy(url) == url.k # "empty"

KnownStudent(info, github_username) ==
  \E i \in 1..Len(info) : info[i].github_username = github_username

\* A lookup for every row with a truthy URL, known student or not.
NeedsLookupAlways(info, github_username, student_repo_url) == UrlTruthy(student_repo_url)

\* Line 813: github_username not in students_with_repo_info and student_repo_url
NeedsLookup(info, github_username, student_repo_url) ==
  ~KnownStudent(info, github_username) /\ UrlTruthy(student_repo_url)

\* The loop of lines 809-862 over the rows of one extract: a student not yet
\* in students_with_repo_info and with a truthy URL is looked up once and
\* entered, whatever the lookup gives.
RECURSIVE CollectStudents(_, _)
CollectStudents(info, rows) ==
  IF rows = <<>> THEN info
  ELSE LET github_username == Strip(Head(rows).github_username.s)
           student_repo_url == Head(rows).student_repository_url
       IN IF NeedsLookup(info, github_username, student_repo_url)
          THEN CollectStudents(
                 Append(info, StudentInfo(github_username,
                                          get_repository_info(student_repo_url))),
                 Tail(rows))
          ELSE CollectStudents(info, Tail(rows))

\* The usernames get_repository_info is called for (line 817) by that loop.
RECURSIVE RepoLookups(_, _)
RepoLookups(info, rows) ==
  IF rows = <<>> THEN <<>>
  ELSE LET github_username == Strip(Head(rows).github_username.s)
           student_repo_url == Head(rows).student_repository_url
       IN IF NeedsLookup(info, github_username, student_repo_url)
          THEN <<github_username>> \o
               RepoLookups(
                 Append(info, StudentInfo(github_username,
                                          get_repository_info(student_repo_url))),
                 Tail(rows))
          ELSE RepoLookups(info, Tail(rows))

\* grades_df of lines 803-805: one row per row of the extract.
GradesOf(df, formatted_name) ==
  [i \in 1..Len(df.rows) |->
     [github_username |-> df.rows[i].github_username.s,
      assignment_name |-> formatted_name,
      points_awarded |-> df.rows[i].points_awarded]]

PointsColumn(df) == [i \in 1..Len(df.rows) |-> df.rows[i].points_available]

(***************************************************************************)
(* Reconciling Writer: the write sets                                      *)
(***************************************************************************)
\* The stamp datetime.now() of a run; the model's clock is the run number.
Now(r) == r

\* sync_assignments_to_supabase, lines 658-669.
AssignmentRecords(assignment_info, r) ==
  [i \in 1..Len(assignment_info) |->
     [name |-> Strip(assignment_info[i].name),
      points_available |-> assignment_info[i].points_available,
      updated_at |-> Now(r)]]

\* Optional fields of a write record.
Field(present, record) == IF present THEN record ELSE <<>>

\* A record that always carries the dates and the resolution time.
StudentRecordAllFields(student, r) ==
  [github_username |-> Strip(student.github_username), updated_at |-> Now(r),
   fork_created_at |-> student.fork_created_at,
   last_updated_at |-> student.last_updated_at,
   resolution_time_hours |-> student.resolution_time_hours]

\* sync_students_to_supabase, lines 595-612: the dates and the resolution
\* time enter the record only when they are set.
StudentRecord(student, r) ==
  [github_username |-> Strip(student.github_username), updated_at |-> Now(r)]
    @@ Field(student.fork_created_at.k # "null",
             [fork_created_at |-> student.fork_created_at])
    @@ Field(student.last_updated_at.k # "null",
             [last_updated_at |-> student.last_updated_at])
    @@ Field(~IsNull(student.resolution_time_hours),
             [resolution_time_hours |-> student.resolution_time_hours])

StudentRecords(students_data, r) ==
  [i \in 1..Len(students_data) |-> StudentRecord(students_data[i], r)]

\* int(points_awarded) raises OverflowError for the float infinity, which the
\* except clause of line 721 (KeyError, ValueError, TypeError) does not catch.
GradeCoercionOverflows(grades_df) ==
  \E i \in 1..Len(grades_df) : grades_df[i].points_awarded.k = "inf"

\* int(points_awarded) raises ValueError: the row is logged and skipped.
GradeRowInvalid(row) == row.points_awarded.k = "str"

\* sync_grades_to_supabase, lines 711-723.
GradeRecords(grades_df, r) ==
  LET valid == SelectSeq(grades_df, LAMBDA row : ~GradeRowInvalid(row)) IN
  [i \in 1..Len(valid) |->
     [github_username |-> Strip(valid[i].github_username),
      assignment_name |-> Strip(valid[i].assignment_name),
      points_awarded |-> valid[i].points_awarded,
      updated_at |-> Now(r)]]

(***************************************************************************)
(* State                                                                   *)
(***************************************************************************)
VARIABLES
  config,             \* SyncConfig: classroom_name, assignment_id, max_retries
  source,             \* what `gh classroom assignments` lists, with the extracts
  default_has_fork,   \* the schema's default of students.has_fork
  students,           \* store table students
  assignments,        \* store table assignments
  grades,             \* store table grades
  admin_leaderboard,  \* store table admin_leaderboard
  run,                \* run[r]: the locals of sync run r
  fn                  \* the argument and result of a function applied on its own

vars == <<config, source, default_has_fork, students, assignments, grades,
          admin_leaderboard, run, fn>>

store == <<students, assignments, grades, admin_leaderboard>>
world == <<config, source, default_has_fork, fn>>

\* Bounds of the model.
MaxAssignments == 2
MaxRuns == 2
MaxRows == 4

\* Program constants.
batch_size == 10
DefaultMaxRetries == 3

Runs == 1..MaxRuns

ClassroomName == "B4OS-Dev-2025"
\* The (classroom_id, name) pairs `gh classroom list` gives.
ClassroomList == <<[id |-> 1, name |-> ClassroomName]>>

NoFilter == [k |-> "null", v |-> 0]

IdleRun ==
  [pc |-> "idle", error |-> "", classroom_id |-> 0, queue |-> <<>>,
   all_grades |-> <<>>, assignment_info |-> <<>>, students_with_repo_info |-> <<>>,
   attempt |-> 0, students_data |-> <<>>, grades_data |-> <<>>,
   leaderboard_data |-> <<>>, i |-> 0, j |-> 0, leaderboard_at_start |-> {},
   lookups |-> <<>>]

NoCall == [col |-> <<>>, name |-> <<>>, result |-> Null, applied |-> FALSE]

EmptyStore == [students |-> {}, assignments |-> {}, grades |-> {}, admin_leaderboard |-> {}]

\* A store an earlier sync has filled: two students, one assignment.
SeededStore(has_fork) ==
  LET st == {[github_username |-> ua, fork_created_at |-> T(0),
              last_updated_at |-> T(Hours(3)), resolution_time_hours |-> N(3),
              has_fork |-> has_fork, updated_at |-> 0],
             [github_username |-> uB, fork_created_at |-> TNull,
              last_updated_at |-> TNull, resolution_time_hours |-> Null,
              has_fork |-> has_fork, updated_at |-> 0]}
      asg == {[name |-> <<"l", "a", "b", "-", "1">>, points_available |-> N(100),
               updated_at |-> 0]}
      gr == {[github_username |-> ua, assignment_name |-> <<"l", "a", "b", "-", "1">>,
              points_awarded |-> N(50), updated_at |-> 0],
             [github_username |-> uB, assignment_name |-> <<"l", "a", "b", "-", "1">>,
              points_awarded |-> N(100), updated_at |-> 0]}
  IN [students |-> st, assignments |-> asg, grades |-> gr,
      admin_leaderboard |->
        Range(ComputeLeaderboard(SetToSeq(st), SetToSeq(gr), SetToSeq(asg)))]

InitialStores(has_fork) == {EmptyStore, SeededStore(has_fork)}

\* The state after construction: the client is connected, run 1 is about to
\* resolve the classroom.
InitWith(configs, sources) ==
  /\ config \in configs
  /\ source \in sources
  /\ default_has_fork \in BOOLEAN
  /\ \E s \in InitialStores(default_has_fork) :
       /\ students = s.students
       /\ assignments = s.assignments
       /\ grades = s.grades
       /\ admin_leaderboard = s.admin_leaderboard
  /\ run = [r \in Runs |-> IF r = 1 THEN [IdleRun EXCEPT !.pc = "classroom"] ELSE IdleRun]
  /\ fn = NoCall

Configs ==
  [classroom_name : {ClassroomName, "other"},
   assignment_id : {NoFilter, N(1)},
   max_retries : {0, 1, DefaultMaxRetries}]

\* The lines `gh classroom assignments` prints after its three header lines:
\* none, the lines of up to MaxAssignments assignments, or one line with fewer
\* than seven tab-separated fields.
Sources == DistinctSeqs(Catalog, MaxAssignments) \cup {<<ShortLine>>}

Init == InitWith(Configs, Sources)

(***************************************************************************)
(* Sync Orchestrator (run_sync, lines 904-931)                             *)
(***************************************************************************)
Set(r, locals) == run' = [run EXCEPT ![r] = locals]

\* The exception logged and the run going on with the leaderboard.
RaiseLogged(r, exception) ==
  Set(r, [run[r] EXCEPT !.pc = "read_students", !.error = exception])

\* The exception leaves run_sync: main() logs it and exits with status 1.
Raise(r, exception) ==
  Set(r, [run[r] EXCEPT !.pc = "failed", !.error = exception])

Finished(r) == run[r].pc \in {"done", "failed"}

\* A later run starts when the run before it has ended.
StartRun(r) ==
  /\ r > 1
  /\ run[r].pc = "idle"
  /\ Finished(r - 1)
  /\ Set(r, [IdleRun EXCEPT !.pc = "classroom",
                            !.leaderboard_at_start = admin_leaderboard])
  /\ UNCHANGED <<store, world>>

\* A classroom that is not listed ends the run as an empty outcome.
GetClassroomIdLenient(r) ==
  /\ run[r].pc = "classroom"
  /\ LET found == SelectSeq(ClassroomList, LAMBDA c : c.name = config.classroom_name) IN
     IF found = <<>> THEN Set(r, [run[r] EXCEPT !.pc = "done"])
     ELSE Set(r, [run[r] EXCEPT !.pc = "assignments", !.classroom_id = found[1].id])
  /\ UNCHANGED <<store, world>>

\* get_classroom_id and lines 906-908.
GetClassroomId(r) ==
  /\ run[r].pc = "classroom"
  /\ LET found == SelectSeq(ClassroomList, LAMBDA c : c.name = config.classroom_name) IN
     IF found = <<>> THEN Raise(r, "GitHubCLIError")
     ELSE Set(r, [run[r] EXCEPT !.pc = "assignments", !.classroom_id = found[1].id])
  /\ UNCHANGED <<store, world>>

\* `gh classroom list` fails or times out: GitHubCLIError is re-raised.
GetClassroomIdError(r) ==
  /\ run[r].pc = "classroom"
  /\ Raise(r, "GitHubCLIError")
  /\ UNCHANGED <<store, world>>

\* _parse_assignments_list: fewer than four lines raise DataValidationError;
\* else the lines after the header that have seven fields are the assignments.
parse_assignments_list(lines) ==
  IF HeaderLines + Len(lines) < MinListingLines THEN [ok |-> FALSE, assignments |-> <<>>]
  ELSE [ok |-> TRUE, assignments |-> SelectSeq(lines, LAMBDA line : line # ShortLine)]

\* get_assignments (the error of the parser is re-raised as GitHubCLIError,
\* lines 230-232) and lines 911-919.
GetAssignments(r) ==
  /\ run[r].pc = "assignments"
  /\ LET parsed == parse_assignments_list(source)
         assignment_data == parsed.assignments
         filtered == IF config.assignment_id = NoFilter THEN assignment_data
                     ELSE SelectSeq(assignment_data,
                                    LAMBDA a : a.id = config.assignment_id.v)
     IN IF ~parsed.ok THEN Raise(r, "GitHubCLIError")
        ELSE IF assignment_data = <<>> THEN Set(r, [run[r] EXCEPT !.pc = "done"])
        ELSE Set(r, [run[r] EXCEPT !.pc = "process", !.queue = filtered])
  /\ UNCHANGED <<store, world>>

\* A listing that fails or times out read as a listing without assignments.
GetAssignmentsErrorSwallowed(r) ==
  /\ run[r].pc = "assignments"
  /\ Set(r, [run[r] EXCEPT !.pc = "done"])
  /\ UNCHANGED <<store, world>>

\* `gh classroom assignments` fails or times out: GitHubCLIError is re-raised.
GetAssignmentsError(r) ==
  /\ run[r].pc = "assignments"
  /\ Raise(r, "GitHubCLIError")
  /\ UNCHANGED <<store, world>>

\* One pass of the loop of line 763.  The extract is skipped when the download
\* gives None (validation failed) and when the name does not format; else the
\* assignment, its grades and its new students are recorded.
ProcessAssignment(r) ==
  /\ run[r].pc = "process"
  /\ run[r].queue # <<>>
  /\ LET a == Head(run[r].queue)
         df == a.extract
         formatted == format_assignment_name(a.name)
         skipped == [run[r] EXCEPT !.queue = Tail(@)]
     IN IF ValidationFails(df) \/ ~formatted.ok THEN Set(r, skipped)
        ELSE Set(r, [skipped EXCEPT
               !.assignment_info =
                  Append(@, [name |-> formatted.name,
                             points_available |->
                               ResolvePointsAvailable(PointsColumn(df), formatted.name)]),
               !.lookups = @ \o RepoLookups(run[r].students_with_repo_info, df.rows),
               !.students_with_repo_info = CollectStudents(@, df.rows),
               !.all_grades = @ \o GradesOf(df, formatted.name)])
  /\ UNCHANGED <<store, world>>

\* The failure of the download command leaving the loop of line 763.
DownloadErrorAborts(r) ==
  /\ run[r].pc = "process"
  /\ run[r].queue # <<>>
  /\ Raise(r, "GitHubCLIError")
  /\ UNCHANGED <<store, world>>

\* The download command fails or times out: download_grades_to_dataframe
\* returns None and the assignment is skipped.
DownloadError(r) ==
  /\ run[r].pc = "process"
  /\ run[r].queue # <<>>
  /\ Set(r, [run[r] EXCEPT !.queue = Tail(@)])
  /\ UNCHANGED <<store, world>>

\* The write phases started with the students.
ConsolidateStudentsFirst(r) ==
  /\ run[r].pc = "process"
  /\ run[r].queue = <<>>
  /\ IF run[r].all_grades = <<>> THEN Set(r, [run[r] EXCEPT !.pc = "done"])
     ELSE Set(r, [run[r] EXCEPT !.pc = "sync_students", !.attempt = 0])
  /\ UNCHANGED <<store, world>>

\* Lines 873-876 and 889-891: with no grades at all the run ends with an
\* empty frame; else the write phases start.
Consolidate(r) ==
  /\ run[r].pc = "process"
  /\ run[r].queue = <<>>
  /\ IF run[r].all_grades = <<>> THEN Set(r, [run[r] EXCEPT !.pc = "done"])
     ELSE Set(r, [run[r] EXCEPT !.pc = "sync_assignments", !.attempt = 0])
  /\ UNCHANGED <<store, world>>

(***************************************************************************)
(* Reconciling Writer: the write phases (lines 622-639, 675-692, 729-746,  *)
(* called in the order of lines 880-883)                                   *)
(***************************************************************************)
\* The except clauses of a retry loop: the last attempt raises
\* SupabaseSyncError, an earlier one goes round the loop.
AttemptFailed(r) ==
  IF run[r].attempt = config.max_retries - 1 THEN Raise(r, "SupabaseSyncError")
  ELSE Set(r, [run[r] EXCEPT !.attempt = @ + 1])

\* The phase returns: the next one starts with a fresh retry loop.
Goto(r, phase) == Set(r, [run[r] EXCEPT !.pc = phase, !.attempt = 0])

\* for attempt in range(max_retries) has a pass left.
CanAttempt(r) == run[r].attempt < config.max_retries

\* table('assignments').upsert(assignments_data, on_conflict='name')
AssignmentsWrite(table, records) ==
  StoreUpsert(table, records, AssignmentKey, AssignmentDefaults)

\* A plain insert where the code upserts.
StudentsWriteInsert(table, records, has_fork) ==
  StoreInsert(table, records, StudentKey, StudentDefaults(has_fork))

\* table('students').upsert(supabase_data, on_conflict='github_username')
StudentsWrite(table, records, has_fork) ==
  StoreUpsert(table, records, StudentKey, StudentDefaults(has_fork))

\* table('grades').upsert(grades_data, on_conflict='github_username,assignment_name')
GradesWrite(table, records) ==
  StoreUpsert(table, records, GradeKey, GradeDefaults)

SyncAssignments(r) ==
  /\ run[r].pc = "sync_assignments"
  /\ LET assignments_data == AssignmentRecords(run[r].assignment_info, r)
         written == AssignmentsWrite(assignments, assignments_data)
     IN IF assignments_data = <<>> \/ ~CanAttempt(r)
        THEN Goto(r, "sync_students") /\ UNCHANGED assignments
        ELSE IF written.ok
        THEN assignments' = written.table /\ Goto(r, "sync_students")
        ELSE AttemptFailed(r) /\ UNCHANGED assignments
  /\ UNCHANGED <<students, grades, admin_leaderboard, world>>

\* The upsert of the assignments raises (network, API): lines 685-692.
SyncAssignmentsError(r) ==
  /\ run[r].pc = "sync_assignments"
  /\ run[r].assignment_info # <<>>
  /\ CanAttempt(r)
  /\ AttemptFailed(r)
  /\ UNCHANGED <<store, world>>

SyncStudents(r) ==
  /\ run[r].pc = "sync_students"
  /\ LET supabase_data == StudentRecords(run[r].students_with_repo_info, r)
         written == StudentsWrite(students, supabase_data, default_has_fork)
     IN IF supabase_data = <<>> \/ ~CanAttempt(r)
        THEN Goto(r, "sync_grades") /\ UNCHANGED students
        ELSE IF written.ok
        THEN students' = written.table /\ Goto(r, "sync_grades")
        ELSE AttemptFailed(r) /\ UNCHANGED students
  /\ UNCHANGED <<assignments, grades, admin_leaderboard, world>>

SyncStudentsError(r) ==
  /\ run[r].pc = "sync_students"
  /\ run[r].students_with_repo_info # <<>>
  /\ CanAttempt(r)
  /\ AttemptFailed(r)
  /\ UNCHANGED <<store, world>>

\* sync_grades_to_supabase: the write set is built first (an OverflowError of
\* int() leaves the function and the run), then the retry loop upserts it.
SyncGrades(r) ==
  /\ run[r].pc = "sync_grades"
  /\ IF GradeCoercionOverflows(run[r].all_grades)
     THEN Raise(r, "OverflowError") /\ UNCHANGED grades
     ELSE LET grades_data == GradeRecords(run[r].all_grades, r)
              written == GradesWrite(grades, grades_data)
          IN IF grades_data = <<>> \/ ~CanAttempt(r)
             THEN Goto(r, "read_students") /\ UNCHANGED grades
             ELSE IF written.ok
             THEN grades' = written.table /\ Goto(r, "read_students")
             ELSE AttemptFailed(r) /\ UNCHANGED grades
  /\ UNCHANGED <<students, assignments, admin_leaderboard, world>>

SyncGradesError(r) ==
  /\ run[r].pc = "sync_grades"
  /\ ~GradeCoercionOverflows(run[r].all_grades)
  /\ GradeRecords(run[r].all_grades, r) # <<>>
  /\ CanAttempt(r)
  /\ AttemptFailed(r)
  /\ UNCHANGED <<store, world>>

(***************************************************************************)
(* refresh_admin_leaderboard (lines 436-549)                               *)
(***************************************************************************)
\* A refresh that goes on with no student.
ReadStudentsUnguarded(r) ==
  /\ run[r].pc = "read_students"
  /\ \E students_data \in Orderings(students) :
       Set(r, [run[r] EXCEPT !.pc = "read_grades", !.students_data = students_data])
  /\ UNCHANGED <<store, world>>

\* Line 438-442: the students, in the order the store gives them; with none
\* the refresh returns and the run is done.
ReadStudents(r) ==
  /\ run[r].pc = "read_students"
  /\ IF students = {} THEN Set(r, [run[r] EXCEPT !.pc = "done"])
     ELSE \E students_data \in Orderings(students) :
            Set(r, [run[r] EXCEPT !.pc = "read_grades", !.students_data = students_data])
  /\ UNCHANGED <<store, world>>

\* Line 445.
ReadGrades(r) ==
  /\ run[r].pc = "read_grades"
  /\ Set(r, [run[r] EXCEPT !.pc = "read_assignments", !.grades_data = SetToSeq(grades)])
  /\ UNCHANGED <<store, world>>

\* Lines 448-518: the assignments are read and the leaderboard is computed,
\* sorted and numbered.
ReadAssignments(r) ==
  /\ run[r].pc = "read_assignments"
  /\ Set(r, [run[r] EXCEPT
        !.pc = "clear",
        !.leaderboard_data =
           ComputeLeaderboard(run[r].students_data, run[r].grades_data,
                              SetToSeq(assignments)),
        !.students_data = <<>>,
        !.grades_data = <<>>])
  /\ UNCHANGED <<store, world>>

\* A select of the refresh raises: line 547 turns it into SupabaseSyncError.
ReadError(r) ==
  /\ run[r].pc \in {"read_students", "read_grades", "read_assignments"}
  /\ Raise(r, "SupabaseSyncError")
  /\ UNCHANGED <<store, world>>

\* Line 524: delete every row.
ClearLeaderboard(r) ==
  /\ run[r].pc = "clear"
  /\ admin_leaderboard' = {}
  /\ Set(r, [run[r] EXCEPT !.pc = "insert_batch", !.i = 0])
  /\ UNCHANGED <<students, assignments, grades, world>>

\* Lines 525-527: the delete raises; the refresh goes on to the inserts.
ClearLeaderboardError(r) ==
  /\ run[r].pc = "clear"
  /\ Set(r, [run[r] EXCEPT !.pc = "insert_batch", !.i = 0])
  /\ UNCHANGED <<store, world>>

Min(x, y) == IF x <= y THEN x ELSE y

\* leaderboard_data[i:i + batch_size]
Batch(r) ==
  SubSeq(run[r].leaderboard_data, run[r].i + 1,
         Min(run[r].i + batch_size, Len(run[r].leaderboard_data)))

\* The loop of line 531 moves to the next batch, or the refresh returns.
NextBatch(r) ==
  IF run[r].i + batch_size < Len(run[r].leaderboard_data)
  THEN Set(r, [run[r] EXCEPT !.pc = "insert_batch", !.i = @ + batch_size, !.j = 0])
  ELSE Set(r, [run[r] EXCEPT !.pc = "done", !.j = 0])

\* table('admin_leaderboard').insert(batch)
LeaderboardInsert(table, batch) ==
  StoreInsert(table, batch, LeaderboardKey, LeaderboardDefaults)

\* An insert in the place of the upsert: a row already in the table stays as
\* it was.
LeaderboardInsertOnly(table, student) ==
  StoreInsert(table, <<student>>, LeaderboardKey, LeaderboardDefaults)

\* table('admin_leaderboard').upsert(student, on_conflict='github_username')
LeaderboardUpsert(table, student) ==
  StoreUpsert(table, <<student>>, LeaderboardKey, LeaderboardDefaults)

\* Line 534: one batch is inserted; when the store rejects it (a username is
\* already in the table) the records of the batch are upserted one by one.
InsertBatch(r) ==
  /\ run[r].pc = "insert_batch"
  /\ LET written == LeaderboardInsert(admin_leaderboard, Batch(r)) IN
     IF written.ok THEN admin_leaderboard' = written.table /\ NextBatch(r)
     ELSE /\ UNCHANGED admin_leaderboard
          /\ Set(r, [run[r] EXCEPT !.pc = "upsert_individual", !.j = 1])
  /\ UNCHANGED <<students, assignments, grades, world>>

\* The insert of the batch raises for another reason (network, policy).
InsertBatchError(r) ==
  /\ run[r].pc = "insert_batch"
  /\ Set(r, [run[r] EXCEPT !.pc = "upsert_individual", !.j = 1])
  /\ UNCHANGED <<store, world>>

\* The individual loop moves on, or the batch is finished.
NextIndividual(r) ==
  IF run[r].j < Len(Batch(r)) THEN Set(r, [run[r] EXCEPT !.j = @ + 1])
  ELSE NextBatch(r)

\* Line 541: one record of the failed batch is upserted.
UpsertIndividual(r) ==
  /\ run[r].pc = "upsert_individual"
  /\ LET written == LeaderboardUpsert(admin_leaderboard, Batch(r)[run[r].j]) IN
     /\ admin_leaderboard' = written.table
     /\ NextIndividual(r)
  /\ UNCHANGED <<students, assignments, grades, world>>

\* The failure of one record ends the one-by-one loop of its batch.
UpsertIndividualErrorBreaks(r) ==
  /\ run[r].pc = "upsert_individual"
  /\ NextBatch(r)
  /\ UNCHANGED <<store, world>>

\* Lines 542-543: the upsert of one record raises; it is logged and skipped.
UpsertIndividualError(r) ==
  /\ run[r].pc = "upsert_individual"
  /\ NextIndividual(r)
  /\ UNCHANGED <<store, world>>

(***************************************************************************)
(* Specifications                                                          *)
(***************************************************************************)
\* The steps of a run in which every external call answers.
Step(r) ==
  \/ GetClassroomId(r)
  \/ GetAssignments(r)
  \/ ProcessAssignment(r)
  \/ Consolidate(r)
  \/ SyncAssignments(r)
  \/ SyncStudents(r)
  \/ SyncGrades(r)
  \/ ReadStudents(r)
  \/ ReadGrades(r)
  \/ ReadAssignments(r)
  \/ ClearLeaderboard(r)
  \/ InsertBatch(r)

\* The steps in which an external call fails.
Fault(r) ==
  \/ GetClassroomIdError(r)
  \/ GetAssignmentsError(r)
  \/ DownloadError(r)
  \/ SyncAssignmentsError(r)
  \/ SyncStudentsError(r)
  \/ SyncGradesError(r)
  \/ ReadError(r)
  \/ ClearLeaderboardError(r)
  \/ InsertBatchError(r)
  \/ UpsertIndividual(r)
  \/ UpsertIndividualError(r)

\* One run, any call of which may fail.
Next == Step(1) \/ Fault(1)

Spec == Init /\ [][Next]_vars

\* The sync run again and again on the same source, every call answering.
RepeatConfigs ==
  [classroom_name : {ClassroomName}, assignment_id : {NoFilter},
   max_retries : {DefaultMaxRetries}]

InitRepeat == InitWith(RepeatConfigs, Sources)

NextRepeat == \E r \in Runs : Step(r) \/ StartRun(r)

SpecRepeat == InitRepeat /\ [][NextRepeat]_vars

\* One run, any call of which may fail, on a classroom of well-formed
\* extracts, extracts with duplicate rows and extracts that fail validation.
XEmpty == Extract(AllColumns, <<>>)
XNoPoints == Extract({"github_username", "points_awarded"},
  <<Row(U(ua), N(50), Null, UrlEmpty)>>)
XTwice == Extract(AllColumns,
  <<Row(U(ua), N(50), N(100), Url("RTO")), Row(U(ua), N(100), N(100), Url("F1"))>>)

FaultCatalog ==
  {Assignment(1, NameLab, XTies), Assignment(2, NamePart2, XMixed),
   Assignment(10, NamePart2Bang, XDup), Assignment(12, NamePart2, XNullUser),
   Assignment(14, NameLab, XEmpty), Assignment(15, NameLab, XNoPoints),
   Assignment(16, NameLab, XTwice)}

InitFault ==
  InitWith(Configs, DistinctSeqs(FaultCatalog, MaxAssignments) \cup {<<ShortLine>>})

SpecFault == InitFault /\ [][Next]_vars

\* ResolvePointsAvailable applied on its own to every points_available column
\* of at most MaxRows cells.
PointCells == {Null, N(0), N(50), N(100)}

Slugs ==
  {format_assignment_name(NameLab).name, format_assignment_name(NamePart2).name,
   format_assignment_name(<<"L", "a", "b", " ", "-", "P", "a", "r", "t", " ", "2", "b">>).name}

InitPoints ==
  /\ fn \in [col : SeqsUpTo(PointCells, MaxRows) \ {<<>>}, name : Slugs,
             result : {Null}, applied : {FALSE}]
  /\ config \in RepeatConfigs
  /\ source = <<>>
  /\ default_has_fork = FALSE
  /\ students = {}
  /\ assignments = {}
  /\ grades = {}
  /\ admin_leaderboard = {}
  /\ run = [r \in Runs |-> IdleRun]

ApplyResolvePoints ==
  /\ ~fn.applied
  /\ fn' = [fn EXCEPT !.result = ResolvePointsAvailable(fn.col, fn.name),
                      !.applied = TRUE]
  /\ UNCHANGED <<config, source, default_has_fork, store, run>>

NextPoints == ApplyResolvePoints

SpecPoints == InitPoints /\ [][NextPoints]_vars

(***************************************************************************)
(* Properties                                                              *)
(***************************************************************************)
\* The entries of the leaderboard a run has computed.
Entries(r) == Range(run[r].leaderboard_data)

HasResolution(x) == ~IsNull(x.resolution_time_hours)

\* C1: in the leaderboard refresh_admin_leaderboard computes, of two students
\* that both have a resolution time, a has the smaller ranking_position exactly
\* when its resolution time is smaller, or the times are equal and its
\* percentage is greater, or both are equal and its username is smaller.
C1_RankingOrder ==
  \A r \in Runs : \A a, b \in Entries(r) :
    (HasResolution(a) /\ HasResolution(b)) =>
      ((a.ranking_position < b.ranking_position) <=>
         \/ a.resolution_time_hours.v < b.resolution_time_hours.v
         \/ /\ a.resolution_time_hours.v = b.resolution_time_hours.v
            /\ a.percentage > b.percentage
         \/ /\ a.resolution_time_hours.v = b.resolution_time_hours.v
            /\ a.percentage = b.percentage
            /\ StrLess(a.github_username, b.github_username))

\* A leaderboard in which the username decides one pair and the percentage
\* another, all three students having the same resolution time.
C1_Witness ==
  \E r \in Runs : \E a, b, c \in Entries(r) :
    /\ HasResolution(a) /\ HasResolution(b) /\ HasResolution(c)
    /\ a.resolution_time_hours = b.resolution_time_hours
    /\ a.percentage = b.percentage
    /\ a.ranking_position < b.ranking_position
    /\ c.resolution_time_hours = a.resolution_time_hours
    /\ c.percentage > a.percentage
    /\ c.ranking_position < a.ranking_position

\* C2: every student without a resolution time is ranked after every student
\* with one, whatever the resolution time and the percentages are.
C2_NoResolutionLast ==
  \A r \in Runs : \A a, b \in Entries(r) :
    (~HasResolution(a) /\ HasResolution(b)) => b.ranking_position < a.ranking_position

\* C3: the n entries of the ranked leaderboard are n students and their
\* ranking positions are exactly 1..n, no two alike, also when resolution time
\* and percentage tie.
C3_PositionsDense ==
  \A r \in Runs :
    LET data == run[r].leaderboard_data IN
    /\ {data[i].ranking_position : i \in 1..Len(data)} = 1..Len(data)
    /\ \A i, j \in 1..Len(data) :
         i # j => /\ data[i].ranking_position # data[j].ranking_position
                  /\ data[i].github_username # data[j].github_username

\* Three ranked students, two of them tied on resolution time and percentage.
C3_Witness ==
  \E r \in Runs :
    /\ Len(run[r].leaderboard_data) = 3
    /\ \E a, b \in Entries(r) :
         /\ a # b
         /\ a.resolution_time_hours = b.resolution_time_hours
         /\ a.percentage = b.percentage

UniqueKeys(table, key) == \A x, y \in table : KeyOf(x, key) = KeyOf(y, key) => x = y

\* Run r has returned and no later run has begun.
LastFinished(r) ==
  /\ Finished(r)
  /\ \A q \in Runs : q > r => run[q].pc = "idle"

\* C4: when the sync has run twice in a row on the same unchanged source
\* (extracts, assignment list and repository metadata, no failure from GitHub
\* or the store), the leaderboard table after the second run equals the one
\* after the first run, and no table holds two rows with the same natural key.
C4_Idempotent ==
  /\ \A r \in Runs \ {1} : LastFinished(r) => admin_leaderboard = run[r].leaderboard_at_start
  /\ UniqueKeys(students, StudentKey)
  /\ UniqueKeys(assignments, AssignmentKey)
  /\ UniqueKeys(grades, GradeKey)
  /\ UniqueKeys(admin_leaderboard, LeaderboardKey)

\* The second of two runs that each wrote and ranked several students.
C4_Witness ==
  /\ LastFinished(2)
  /\ run[1].pc = "done" /\ run[2].pc = "done"
  /\ Len(run[2].leaderboard_data) > 1
  /\ Cardinality(admin_leaderboard) = Len(run[2].leaderboard_data)
  /\ Cardinality(grades) > 1

\* C5: a student whose has_fork is false has no resolution time, in the
\* student working set and in the leaderboard entry, whatever timestamps are
\* stored for that student.
C5_NoForkNoResolution ==
  \A r \in Runs :
    /\ \A s \in Range(run[r].students_with_repo_info) :
         ~s.has_fork => IsNull(s.resolution_time_hours)
    /\ \A e \in Entries(r) : ~e.has_fork => IsNull(e.resolution_time_hours)

\* A ranked student without fork whose two stored timestamps are well formed.
C5_Witness ==
  \E r \in Runs : \E e \in Entries(r) :
    /\ ~e.has_fork
    /\ e.fork_created_at.k = "ts" /\ e.last_updated_at.k = "ts"
    /\ IsNull(e.resolution_time_hours)

\* The grades rows the refresh of run r has read: the table does not change
\* between the read and the end of the run.
Refreshing(r) == run[r].pc \in {"clear", "insert_batch", "upsert_individual"}

\* C6: assignments_completed of a leaderboard entry is the number of distinct
\* assignment names among the student's grade records, records with null or
\* zero points_awarded included.
C6_AssignmentsCompleted ==
  \A r \in Runs : Refreshing(r) =>
    \A e \in Entries(r) :
      e.assignments_completed =
        Cardinality({g.assignment_name : g \in {x \in grades : x.github_username = e.github_username}})

\* A ranked student with two assignments, one of them graded null or zero.
C6_Witness ==
  \E r \in Runs : Refreshing(r) /\ \E e \in Entries(r) :
    /\ e.assignments_completed = 2
    /\ \E g \in grades : g.github_username = e.github_username /\ ~Truthy(g.points_awarded)

\* C7: the percentage of every leaderboard entry is an integer from 0 to 100,
\* and 0 when total_possible is 0.
C7_PercentageRange ==
  \A r \in Runs : \A e \in Entries(r) :
    /\ e.percentage \in 0..100
    /\ e.total_possible = 0 => e.percentage = 0

StrictlyPositive(c) == IsInt(c) /\ c.v > 0

\* C8: the points_available resolved from an extract is the maximum of the
\* column over all rows whenever that maximum is strictly positive; the rows
\* 0, 0, 50, 50 resolve to 50.
C8_MaxRule ==
  fn.applied =>
    \A i \in 1..Len(fn.col) :
      (/\ StrictlyPositive(fn.col[i])
       /\ \A j \in 1..Len(fn.col) : IsInt(fn.col[j]) => fn.col[j].v <= fn.col[i].v)
      => fn.result = fn.col[i]

\* The column 0, 0, 50, 50 resolved to 50.
C8_Witness ==
  /\ fn.applied
  /\ fn.col = <<N(0), N(0), N(50), N(50)>>
  /\ fn.result = N(50)

\* The points the stored assignments give to a name; 0 when they give none.
StoredPoints(name) ==
  IF \E a \in assignments : a.name = name /\ StrictlyPositive(a.points_available)
  THEN (CHOOSE a \in assignments : a.name = name).points_available.v
  ELSE 0

\* What a student's grades rows add up to in stored points.
RECURSIVE SumStoredPoints(_)
SumStoredPoints(G) ==
  IF G = {} THEN 0
  ELSE LET g == CHOOSE x \in G : TRUE
       IN StoredPoints(g.assignment_name) + SumStoredPoints(G \ {g})

\* The step that processes the extract at the head of the queue of run r.
C9_Resolved(r) ==
  (run[r].queue # <<>> /\ Len(run'[r].assignment_info) = Len(run[r].assignment_info) + 1) =>
    LET col == PointsColumn(Head(run[r].queue).extract)
        info == run'[r].assignment_info[Len(run'[r].assignment_info)]
    IN (\A i \in 1..Len(col) : ~StrictlyPositive(col[i])) =>
         /\ info.points_available = IF Contains(info.name, PartTwo) THEN N(100) ELSE Null
         /\ \E rec \in Range(AssignmentRecords(run'[r].assignment_info, r)) :
              rec.name = info.name /\ rec.points_available = info.points_available

\* The leaderboard run r computed against the assignments it read.
C9_Unresolved(r) ==
  Refreshing(r) =>
    \A e \in Entries(r) :
      e.total_possible =
        SumStoredPoints({g \in grades : g.github_username = e.github_username})

\* C9: when no row of an extract (of points that are null or not negative) has
\* a strictly positive points_available, the resolved value is 100 for a slug
\* containing 'part-2' and None otherwise; an assignment resolved to None stays
\* in the assignment write set and adds 0 to total_possible.
C9_Fallback == [][\A r \in Runs : C9_Resolved(r) /\ C9_Unresolved(r)']_vars

\* Two extracts without a positive points_available, one of a 'part-2' slug
\* and one of another, written and ranked: a student graded on both has the
\* 100 points of the first as total_possible.
C9_Witness ==
  \E r \in Runs :
    /\ Refreshing(r)
    /\ Len(source) = 2
    /\ \A k \in 1..2 : \A i \in 1..Len(source[k].extract.rows) :
         ~StrictlyPositive(source[k].extract.rows[i].points_available)
    /\ \E x, y \in Range(run[r].assignment_info) :
         /\ Contains(x.name, PartTwo) /\ x.points_available = N(100)
         /\ ~Contains(y.name, PartTwo) /\ IsNull(y.points_available)
    /\ \E e \in Entries(r) : e.assignments_completed = 2 /\ e.total_possible = 100

NotCoercible(row) == row.points_awarded.k \in {"str", "inf"}

PastGrades(r) ==
  run[r].pc \in {"read_students", "read_grades", "read_assignments", "clear",
                 "insert_batch", "upsert_individual", "done"}

\* C10: a grade record whose points_awarded cannot be coerced to an integer is
\* dropped from the write set of the grades phase, every other record of the
\* write is upserted, and the record does not abort the run.
C10_BadGradeDropped ==
  \A r \in Runs :
    (\E i \in 1..Len(run[r].all_grades) : NotCoercible(run[r].all_grades[i])) =>
      /\ run[r].error # "OverflowError"
      /\ (PastGrades(r) /\ config.max_retries > 0) =>
           \A i \in 1..Len(run[r].all_grades) :
             LET row == run[r].all_grades[i] IN
             IF NotCoercible(row)
             THEN \A g \in grades :
                    (g.github_username = Strip(row.github_username)
                       /\ g.assignment_name = Strip(row.assignment_name))
                    => g.updated_at # Now(r)
             ELSE \E g \in grades :
                    /\ g.github_username = Strip(row.github_username)
                    /\ g.assignment_name = Strip(row.assignment_name)
                    /\ g.points_awarded = row.points_awarded

(***************************************************************************)
(* format_assignment_name applied on its own, twice in a row               *)
(***************************************************************************)
MaxNameLen == 3

NameChars == {" ", "!", "-", "2", "P", "a"}

NoSlug == [ok |-> FALSE, name |-> <<>>]

InitFormat ==
  /\ fn \in [name : SeqsUpTo(NameChars, MaxNameLen) \ {<<>>},
             first : {NoSlug}, second : {NoSlug}, calls : {0}]
  /\ config \in RepeatConfigs
  /\ source = <<>>
  /\ default_has_fork = FALSE
  /\ students = {}
  /\ assignments = {}
  /\ grades = {}
  /\ admin_leaderboard = {}
  /\ run = [r \in Runs |-> IdleRun]

\* formatted = format_assignment_name(name)
FormatName ==
  /\ fn.calls = 0
  /\ fn' = [fn EXCEPT !.first = format_assignment_name(fn.name), !.calls = 1]
  /\ UNCHANGED <<config, source, default_has_fork, store, run>>

\* format_assignment_name(formatted), when the first call returned.
FormatSlug ==
  /\ fn.calls = 1
  /\ fn.first.ok
  /\ fn' = [fn EXCEPT !.second = format_assignment_name(fn.first.name), !.calls = 2]
  /\ UNCHANGED <<config, source, default_has_fork, store, run>>

NextFormat == FormatName \/ FormatSlug

SpecFormat == InitFormat /\ [][NextFormat]_vars

\* C11: format_assignment_name is idempotent: for every name it accepts, the
\* call on its result succeeds and returns that result unchanged.
C11_FormatIdempotent ==
  fn.calls = 2 => (fn.second.ok /\ fn.second.name = fn.first.name)

Processed(a) == ~ValidationFails(a.extract) /\ format_assignment_name(a.name).ok

\* C12: within one run get_repository_info is called at most once for a
\* student username, however many assignments and rows name the student and
\* whether the first lookup gave a repository or not.
C12_OneLookupPerStudent ==
  \A r \in Runs : \A i, j \in 1..Len(run[r].lookups) :
    i # j => run[r].lookups[i] # run[r].lookups[j]

\* A run over two assignments that both name, with a repository URL, a
\* student whose first lookup gave nothing.
C12_Witness ==
  \E r \in Runs :
    /\ run[r].pc = "sync_assignments"
    /\ Len(source) = 2
    /\ \E u \in Range(run[r].lookups) :
         /\ \E s \in Range(run[r].students_with_repo_info) :
              s.github_username = u /\ ~s.has_fork
         /\ \A k \in 1..2 :
              /\ Processed(source[k])
              /\ \E row \in Range(source[k].extract.rows) :
                   /\ Strip(row.github_username.s) = u
                   /\ row.student_repository_url.k = "repo"

\* Run r enters the phase in this step.
Starts(r, phase) == run[r].pc # phase /\ run'[r].pc = phase

\* Run r is in one of the steps of refresh_admin_leaderboard.
InRefresh(r) ==
  run[r].pc \in {"read_students", "read_grades", "read_assignments", "clear",
                 "insert_batch", "upsert_individual"}

\* Each table is written only by a run that is in the table's phase.
WritesInPhase ==
  /\ assignments' # assignments => \E r \in Runs : run[r].pc = "sync_assignments"
  /\ students' # students => \E r \in Runs : run[r].pc = "sync_students"
  /\ grades' # grades => \E r \in Runs : run[r].pc = "sync_grades"
  /\ admin_leaderboard' # admin_leaderboard => \E r \in Runs : InRefresh(r)

\* C13 as the code has it: once consolidation yields a record the write
\* phases start in the order assignments, students, grades, leaderboard, each
\* when the one before it has returned, and each table is written in its phase.
C13_AssignmentsFirst ==
  [][/\ \A r \in Runs :
          /\ Starts(r, "sync_assignments") =>
               (run[r].pc = "process" /\ run[r].all_grades # <<>>)
          /\ Starts(r, "sync_students") => run[r].pc = "sync_assignments"
          /\ Starts(r, "sync_grades") => run[r].pc = "sync_students"
          /\ Starts(r, "read_students") => run[r].pc = "sync_grades"
     /\ WritesInPhase]_vars

\* A run that wrote assignments, students and grades and is about to refresh
\* the leaderboard.
C13_Witness ==
  \E r \in Runs :
    /\ run[r].pc = "read_students"
    /\ \E a \in assignments : a.updated_at = Now(r)
    /\ \E s \in students : s.updated_at = Now(r)
    /\ \E g \in grades : g.updated_at = Now(r)

\* C13: once consolidation yields a record the write phases start in the
\* order students, assignments, grades, leaderboard, each when the one before
\* it has returned.
C13_StudentsFirst ==
  [][\A r \in Runs :
       /\ Starts(r, "sync_students") => run[r].pc = "process"
       /\ Starts(r, "sync_assignments") => run[r].pc = "sync_students"
       /\ Starts(r, "sync_grades") => run[r].pc = "sync_assignments"
       /\ Starts(r, "read_students") => run[r].pc = "sync_grades"]_vars

UpsertPhases == {"sync_assignments", "sync_students", "sync_grades"}

NextPhase(phase) ==
  CASE phase = "sync_assignments" -> "sync_students"
    [] phase = "sync_students" -> "sync_grades"
    [] phase = "sync_grades" -> "read_students"

\* The assignments phase of run r has written its records.
AssignmentsWritten(r) ==
  \A rec \in Range(AssignmentRecords(run[r].assignment_info, r)) :
    \E a \in assignments :
      /\ a.name = rec.name /\ a.points_available = rec.points_available
      /\ a.updated_at = Now(r)

\* The students phase of run r has written its records.
StudentsWritten(r) ==
  \A rec \in Range(StudentRecords(run[r].students_with_repo_info, r)) :
    \E s \in students : s.github_username = rec.github_username /\ s.updated_at = Now(r)

\* What run r has when a phase raises: the rows of the phases before it.
EarlierPhasesWritten(r) ==
  /\ run[r].pc \in {"sync_students", "sync_grades"} => AssignmentsWritten(r)
  /\ run[r].pc = "sync_grades" => StudentsWritten(r)

\* C14: when a write phase fails after its retries the failure reaches the
\* caller of run_sync, no later phase writes to the store, and the rows the
\* earlier phases of the run wrote stay in the store as they are.
C14_FailureStopsWrites ==
  [][\A r \in Runs :
       /\ (run[r].pc \in UpsertPhases /\ run'[r].pc # run[r].pc) =>
            \/ run'[r].pc = NextPhase(run[r].pc)
            \/ /\ run'[r].pc = "failed"
               /\ run'[r].error # ""
               /\ UNCHANGED store
               /\ run'[r].error = "SupabaseSyncError" => EarlierPhasesWritten(r)
       /\ run[r].pc = "failed" => (run'[r] = run[r] /\ UNCHANGED store)]_vars

\* The grades phase has failed three times in a row: the run has ended with
\* SupabaseSyncError, the assignments and students of the run are stored and
\* no grade of the run is.
C14_Witness ==
  \E r \in Runs :
    /\ run[r].pc = "failed"
    /\ run[r].error = "SupabaseSyncError"
    /\ config.max_retries = DefaultMaxRetries
    /\ run[r].assignment_info # <<>> /\ AssignmentsWritten(r)
    /\ run[r].students_with_repo_info # <<>> /\ StudentsWritten(r)
    /\ \A g \in grades : g.updated_at # Now(r)
    /\ admin_leaderboard = run[r].leaderboard_at_start

\* The step of run r that takes the assignment at the head of the queue: the
\* run stays in the loop, and the assignment adds either nothing or its own
\* grades; it adds nothing when its extract fails validation.
C15_Skipped(r) ==
  (run[r].pc = "process" /\ run[r].queue # <<>> /\ run'[r] # run[r]) =>
    LET a == Head(run[r].queue)
        own == GradesOf(a.extract, format_assignment_name(a.name).name)
        skipped == /\ run'[r].all_grades = run[r].all_grades
                   /\ run'[r].assignment_info = run[r].assignment_info
                   /\ run'[r].students_with_repo_info = run[r].students_with_repo_info
    IN /\ run'[r].pc = "process"
       /\ run'[r].queue = Tail(run[r].queue)
       /\ skipped \/ run'[r].all_grades = run[r].all_grades \o own
       /\ ValidationFails(a.extract) => skipped

\* The consolidated grades of run r are stored once the grades phase returned.
C15_Written(r) ==
  (PastGrades(r) /\ config.max_retries > 0) =>
    \A i \in 1..Len(run[r].all_grades) :
      LET row == run[r].all_grades[i] IN
      NotCoercible(row) \/
        \E g \in grades :
          /\ g.github_username = Strip(row.github_username)
          /\ g.assignment_name = Strip(row.assignment_name)
          /\ g.updated_at = Now(r)

\* C15: an assignment whose processing fails (download error or timeout,
\* missing required column, empty extract, null student identifier) adds no
\* grade record, and the run goes on with the remaining assignments, whose
\* grades are consolidated and written.
C15_AssignmentSkipped == [][\A r \in Runs : C15_Skipped(r) /\ C15_Written(r)']_vars

\* A run whose first assignment failed validation and whose second one gave
\* the grades that are now stored.
C15_Witness ==
  \E r \in Runs :
    /\ run[r].pc = "read_students"
    /\ IsNull(config.assignment_id)
    /\ Len(source) = 2
    /\ ValidationFails(source[1].extract)
    /\ run[r].all_grades # <<>>
    /\ run[r].all_grades =
         GradesOf(source[2].extract, format_assignment_name(source[2].name).name)
    /\ \A i \in 1..Len(run[r].all_grades) :
         \E g \in grades :
           /\ g.github_username = Strip(run[r].all_grades[i].github_username)
           /\ g.updated_at = Now(r)

\* The grades phase of run r has written its records.
GradesWritten(r) ==
  \A rec \in Range(GradeRecords(run[r].all_grades, r)) :
    \E g \in grades :
      /\ g.github_username = rec.github_username
      /\ g.assignment_name = rec.assignment_name
      /\ g.points_awarded = rec.points_awarded
      /\ g.updated_at = Now(r)

\* The write set of the upsert phase run r is in.
WriteSet(r) ==
  CASE run[r].pc = "sync_assignments" -> AssignmentRecords(run[r].assignment_info, r)
    [] run[r].pc = "sync_students" -> StudentRecords(run[r].students_with_repo_info, r)
    [] run[r].pc = "sync_grades" -> GradeRecords(run[r].all_grades, r)

\* C16: for every max_retries, an upsert phase called with a non-empty valid
\* write set ends either with an upsert that succeeded or, after max_retries
\* failed attempts, with SupabaseSyncError; it never returns without a
\* successful upsert.
C16_UpsertOrRaise ==
  [][\A r \in Runs :
       (/\ run[r].pc \in UpsertPhases
        /\ run'[r].pc # run[r].pc
        /\ WriteSet(r) # <<>>
        /\ ~GradeCoercionOverflows(run[r].all_grades)) =>
         \/ /\ run'[r].pc = NextPhase(run[r].pc)
            /\ run[r].attempt < config.max_retries
            /\ run[r].pc = "sync_assignments" => AssignmentsWritten(r)'
            /\ run[r].pc = "sync_students" => StudentsWritten(r)'
            /\ run[r].pc = "sync_grades" => GradesWritten(r)'
         \/ /\ run'[r].pc = "failed"
            /\ run'[r].error = "SupabaseSyncError"
            /\ run[r].attempt = config.max_retries - 1]_vars

(***************************************************************************)
(* The delete of the leaderboard always raises (lines 522-527)             *)
(***************************************************************************)
\* A store an earlier sync has filled, from which the students row of z has
\* been removed since: the leaderboard still holds the row of z.
StaleStore(has_fork) ==
  LET s == SeededStore(has_fork) IN
  [s EXCEPT !.admin_leaderboard =
     @ \cup {[LeaderboardDefaults EXCEPT !.github_username = <<"z">>,
                                         !.total_score = 10,
                                         !.total_possible = 100,
                                         !.percentage = 10,
                                         !.assignments_completed = 1,
                                         !.ranking_position = 3]}]

InitClearFails ==
  /\ config \in RepeatConfigs
  /\ source \in Sources
  /\ default_has_fork \in BOOLEAN
  /\ \E s \in InitialStores(default_has_fork) \cup {StaleStore(default_has_fork)} :
       /\ students = s.students
       /\ assignments = s.assignments
       /\ grades = s.grades
       /\ admin_leaderboard = s.admin_leaderboard
       /\ run = [r \in Runs |->
                   IF r = 1
                   THEN [IdleRun EXCEPT !.pc = "classroom",
                                        !.leaderboard_at_start = s.admin_leaderboard]
                   ELSE IdleRun]
  /\ fn = NoCall

\* Every call answers but the delete of line 524, which raises in every
\* refresh; the records of a batch the insert rejects are upserted one by one.
NextClearFails ==
  \E r \in Runs :
    \/ StartRun(r)
    \/ GetClassroomId(r)
    \/ GetAssignments(r)
    \/ ProcessAssignment(r)
    \/ Consolidate(r)
    \/ SyncAssignments(r)
    \/ SyncStudents(r)
    \/ SyncGrades(r)
    \/ ReadStudents(r)
    \/ ReadGrades(r)
    \/ ReadAssignments(r)
    \/ ClearLeaderboardError(r)
    \/ InsertBatch(r)
    \/ UpsertIndividual(r)

SpecClearFails == InitClearFails /\ [][NextClearFails]_vars

\* The usernames of the leaderboard run r has computed.
NewUsernames(r) ==
  {run[r].leaderboard_data[i].github_username : i \in 1..Len(run[r].leaderboard_data)}

\* The record is in the table with the values the refresh has computed.
InTable(table, student) ==
  \E row \in table : \A c \in DOMAIN student : row[c] = student[c]

WrittenAsComputed(student) == InTable(admin_leaderboard, student)

\* C17: when the delete of the leaderboard raises, the run does not abort and
\* every entry of the newly computed leaderboard is written: a row whose
\* username was already in the table holds the newly computed values, and a
\* row whose username is not in the new set is left as it was.
C17_ClearFailureKeepsWriting ==
  \A r \in Runs :
    /\ run[r].pc = "failed" => run[r].leaderboard_data = <<>>
    /\ (LastFinished(r) /\ run[r].pc = "done") =>
         /\ \A i \in 1..Len(run[r].leaderboard_data) :
              WrittenAsComputed(run[r].leaderboard_data[i])
         /\ \A row \in admin_leaderboard :
              row.github_username \notin NewUsernames(r) =>
                row \in run[r].leaderboard_at_start
         /\ \A row \in run[r].leaderboard_at_start :
              row.github_username \notin NewUsernames(r) =>
                row \in admin_leaderboard

\* A refresh whose delete raised has ended: it has replaced the values of a
\* row that was in the table and has left the row of a username it did not
\* compute.
C17_Witness ==
  \E r \in Runs :
    /\ LastFinished(r)
    /\ run[r].pc = "done"
    /\ \E row \in run[r].leaderboard_at_start :
         /\ row.github_username \in NewUsernames(r)
         /\ row \notin admin_leaderboard
    /\ \E row \in run[r].leaderboard_at_start :
         /\ row.github_username \notin NewUsernames(r)
         /\ row \in admin_leaderboard

(***************************************************************************)
(* The write of a leaderboard of more than one batch (lines 529-545)       *)
(***************************************************************************)
MaxStudents == 12

\* The username of the n-th student of a large class: aa, ab, al, ...
ClassUsername(n) ==
  LET Letters == <<"a", "b", "l", "p", "r", "t">> IN
  <<Letters[((n - 1) \div Len(Letters)) + 1], Letters[((n - 1) % Len(Letters)) + 1]>>

\* A store of n students without grades; with old rows the leaderboard holds
\* the row an earlier refresh wrote for the first of them.
ClassStore(n, has_fork, old_rows) ==
  [students |-> {[StudentDefaults(has_fork) EXCEPT !.github_username = ClassUsername(k)] :
                   k \in 1..n},
   assignments |-> {},
   grades |-> {},
   admin_leaderboard |->
     IF old_rows
     THEN {[LeaderboardDefaults EXCEPT !.github_username = ClassUsername(1),
                                       !.has_fork = has_fork,
                                       !.ranking_position = n]}
     ELSE {}]

\* The refresh has read the three tables and has computed the leaderboard
\* (lines 438-518); the delete of line 524 comes next.
InitBatches ==
  /\ config \in RepeatConfigs
  /\ source = <<>>
  /\ default_has_fork \in BOOLEAN
  /\ \E n \in 1..MaxStudents, old_rows \in BOOLEAN :
       LET s == ClassStore(n, default_has_fork, old_rows) IN
       /\ students = s.students
       /\ assignments = s.assignments
       /\ grades = s.grades
       /\ admin_leaderboard = s.admin_leaderboard
       /\ run = [r \in Runs |->
                   IF r = 1
                   THEN [IdleRun EXCEPT
                           !.pc = "clear",
                           !.leaderboard_at_start = s.admin_leaderboard,
                           !.leaderboard_data =
                              ComputeLeaderboard(SetToSeq(s.students), <<>>, <<>>)]
                   ELSE IdleRun]
  /\ fn = NoCall

\* The write phase of the refresh, any call of which may fail.
NextBatches ==
  \/ ClearLeaderboard(1)
  \/ ClearLeaderboardError(1)
  \/ InsertBatch(1)
  \/ InsertBatchError(1)
  \/ UpsertIndividual(1)
  \/ UpsertIndividualError(1)

SpecBatches == InitBatches /\ [][NextBatches]_vars

\* The rows of the table but the one of the username.
RowsBut(table, github_username) ==
  {row \in table : row.github_username # github_username}

\* The step leaves the batch loop where line 531 takes it after the batch of
\* run r: at the next batch, or at the end of the refresh.
BatchLoopGoesOn(r) ==
  IF run[r].i + batch_size < Len(run[r].leaderboard_data)
  THEN run'[r].pc = "insert_batch" /\ run'[r].i = run[r].i + batch_size
  ELSE run'[r].pc = "done"

\* C18: in the leaderboard write phase, when the write of a batch fails every
\* record of that batch is upserted one by one; a record whose upsert fails is
\* skipped, its batch-mates and the later batches are still written, and the
\* run is not aborted.
C18_BatchFallback ==
  [][\A r \in Runs :
       /\ Refreshing(r) => run'[r].pc # "failed"
       /\ (run[r].pc = "insert_batch" /\ run'[r] # run[r]) =>
            \/ /\ \A k \in 1..Len(Batch(r)) : InTable(admin_leaderboard', Batch(r)[k])
               /\ BatchLoopGoesOn(r)
            \/ /\ UNCHANGED admin_leaderboard
               /\ run'[r].pc = "upsert_individual"
               /\ run'[r].i = run[r].i
               /\ run'[r].j = 1
       /\ (run[r].pc = "upsert_individual" /\ run'[r] # run[r]) =>
            /\ \/ /\ InTable(admin_leaderboard', Batch(r)[run[r].j])
                  /\ RowsBut(admin_leaderboard', Batch(r)[run[r].j].github_username) =
                       RowsBut(admin_leaderboard, Batch(r)[run[r].j].github_username)
               \/ UNCHANGED admin_leaderboard
            /\ IF run[r].j < Len(Batch(r))
               THEN /\ run'[r].pc = "upsert_individual"
                    /\ run'[r].i = run[r].i
                    /\ run'[r].j = run[r].j + 1
               ELSE BatchLoopGoesOn(r)]_vars

\* The refresh has ended after a first batch that was written one by one: one
\* of its records was skipped, a later record of the same batch and a record
\* of the second batch are in the table.
C18_Witness ==
  \E r \in Runs :
    /\ run[r].pc = "done"
    /\ Len(run[r].leaderboard_data) > batch_size
    /\ \E k \in 1..batch_size :
         /\ \A row \in admin_leaderboard :
              row.github_username # run[r].leaderboard_data[k].github_username
         /\ \E m \in (k + 1)..batch_size :
              WrittenAsComputed(run[r].leaderboard_data[m])
    /\ WrittenAsComputed(run[r].leaderboard_data[batch_size + 1])

\* The conflict columns of the upsert of a phase.
PhaseKey(phase) ==
  CASE phase = "sync_assignments" -> AssignmentKey
    [] phase = "sync_students" -> StudentKey
    [] phase = "sync_grades" -> GradeKey

\* The records of the write set of run r that the store has no reason to
\* reject: no other record of the set has their key.
Unrejected(r) ==
  LET records == WriteSet(r)
      cols == PhaseKey(run[r].pc)
  IN {records[i] : i \in {k \in 1..Len(records) :
                            \A m \in 1..Len(records) :
                              KeyOf(records[m], cols) = KeyOf(records[k], cols) => m = k}}

\* C19: in the students, assignments and grades write phases (every call to
\* the store answering), a record that the store rejects neither aborts the
\* run nor keeps the other records of the same write set from being stored:
\* the phase ends in the next phase with those records in its table.
C19_RejectedRecordIsolated ==
  [][\A r \in Runs :
       (/\ run[r].pc \in UpsertPhases
        /\ run'[r].pc # run[r].pc
        /\ run[r].pc = "sync_grades" => ~GradeCoercionOverflows(run[r].all_grades)) =>
         /\ run'[r].pc = NextPhase(run[r].pc)
         /\ \A rec \in Unrejected(r) :
              InTable(CASE run[r].pc = "sync_assignments" -> assignments'
                        [] run[r].pc = "sync_students" -> students'
                        [] run[r].pc = "sync_grades" -> grades',
                      rec)]_vars

\* The (username, assignment_name) pair of a consolidated grade.
PairOf(grade) == <<grade.github_username, grade.assignment_name>>

\* C20: the consolidated grade set handed to the grades write phase holds at
\* most one record per (username, assignment_name) pair: of several rows of
\* the run with the same pair only the last one processed is kept.
C20_OneGradePerPair ==
  \A r \in Runs :
    run[r].pc = "sync_grades" =>
      \A i, j \in 1..Len(run[r].all_grades) :
        PairOf(run[r].all_grades[i]) = PairOf(run[r].all_grades[j]) => i = j

\* The usernames of the grade records run r hands to the grades phase.
GradedUsernames(r) ==
  {rec.github_username : rec \in Range(GradeRecords(run[r].all_grades, r))}

\* C21: after a run whose four write phases all succeed, every username with
\* at least one grade record in the run has a leaderboard entry, students
\* without a repository reference or without lifecycle data included.
C21_GradedStudentsRanked ==
  \A r \in Runs :
    (/\ LastFinished(r)
     /\ run[r].pc = "done"
     /\ run[r].leaderboard_data # <<>>
     /\ ~GradeCoercionOverflows(run[r].all_grades)) =>
       \A u \in GradedUsernames(r) :
         \E row \in admin_leaderboard : row.github_username = u

\* The listing of the classroom has no assignment line.
NoAssignmentsListed == \A i \in 1..Len(source) : source[i] = ShortLine

\* C22: when the source lists no assignments for the resolved classroom
\* (every call answering), the run ends early as a valid empty outcome:
\* run_sync returns without raising and nothing is written to the store.
C22_NoAssignmentsEndsEarly ==
  [][\A r \in Runs :
       (/\ run[r].pc = "assignments"
        /\ run'[r].pc # "assignments"
        /\ NoAssignmentsListed) =>
         /\ run'[r].pc = "done"
         /\ run'[r].error = ""
         /\ UNCHANGED store]_vars

\* main: the status the process exits with once run r has ended (lines
\* 956-972): 1 when an exception has left run_sync, else 0.
ExitStatus(r) == IF run[r].pc = "failed" THEN 1 ELSE 0

\* The classroom of the configuration is in the listing.
ClassroomListed ==
  \E i \in 1..Len(ClassroomList) : ClassroomList[i].name = config.classroom_name

\* C23 as amended: a run whose classroom cannot be resolved, or whose
\* assignment listing cannot be read, ends with a non-zero exit status and
\* without a store write; a listing that can be read and has no assignment
\* ends the run without a store write too, with status 0 unless the listing
\* call itself failed.
C23_FatalRunNoWrite ==
  [][\A r \in Runs :
       /\ (run[r].pc = "classroom" /\ run'[r].pc # "classroom") =>
            /\ UNCHANGED store
            /\ ~ClassroomListed => (Finished(r)' /\ ExitStatus(r)' = 1)
       /\ (run[r].pc = "assignments" /\ run'[r].pc # "assignments") =>
            /\ UNCHANGED store
            /\ ~parse_assignments_list(source).ok => (Finished(r)' /\ ExitStatus(r)' = 1)
            /\ NoAssignmentsListed => Finished(r)'
            /\ (Finished(r)' /\ ExitStatus(r)' = 0) =>
                 (parse_assignments_list(source).ok /\ NoAssignmentsListed)]_vars

\* A run whose classroom was resolved has ended with status 0 on a listing
\* whose only line after the header is not an assignment.
C23_Witness ==
  \E r \in Runs :
    /\ Finished(r)
    /\ run[r].classroom_id # 0
    /\ source = <<ShortLine>>
    /\ ExitStatus(r) = 0

\* C23: a fully fatal run (the classroom cannot be resolved, or no assignments
\* exist) exits with a non-zero status and performs no store write.
C23_FatalRunExitsNonZero ==
  [][\A r \in Runs :
       /\ (run[r].pc = "classroom" /\ run'[r].pc # "classroom" /\ ~ClassroomListed) =>
            (Finished(r)' /\ ExitStatus(r)' = 1 /\ UNCHANGED store)
       /\ (run[r].pc = "assignments" /\ run'[r].pc # "assignments"
           /\ NoAssignmentsListed) =>
            (Finished(r)' /\ ExitStatus(r)' = 1 /\ UNCHANGED store)]_vars

\* The run ends on GitHubCLIError and the step writes nothing.
FailsOnGitHubCLI(r) ==
  /\ run'[r].pc = "failed"
  /\ run'[r].error = "GitHubCLIError"
  /\ UNCHANGED store

\* C24 as amended: a timeout of a grade extract download or of a lifecycle
\* lookup fails that call only, the run goes on with the next assignment; a
\* timeout of the classroom listing or of the assignment listing ends the run
\* with GitHubCLIError, before any store write.
C24_TimeoutScope ==
  [][\A r \in Runs :
       /\ (run[r].pc = "process" /\ run'[r] # run[r]) =>
            /\ run'[r].pc # "failed"
            /\ run[r].queue # <<>> =>
                 (run'[r].pc = "process" /\ run'[r].queue = Tail(run[r].queue))
       /\ (run[r].pc = "classroom" /\ run'[r].pc # "classroom" /\ ClassroomListed) =>
            (run'[r].pc = "assignments" \/ FailsOnGitHubCLI(r))
       /\ (/\ run[r].pc = "assignments"
           /\ run'[r].pc # "assignments"
           /\ parse_assignments_list(source).ok
           /\ ~NoAssignmentsListed) =>
            (run'[r].pc = "process" \/ FailsOnGitHubCLI(r))]_vars

\* A run has failed on the assignment listing of a classroom it had resolved
\* and whose listing holds assignments: the listing call timed out.
C24_Witness ==
  \E r \in Runs :
    /\ run[r].pc = "failed"
    /\ run[r].error = "GitHubCLIError"
    /\ run[r].classroom_id # 0
    /\ parse_assignments_list(source).ok
    /\ ~NoAssignmentsListed

\* C24: a timeout of a single external call (classroom listing, assignment
\* listing, grade extract download, lifecycle lookup) never makes the whole
\* run fail: with a listed classroom and a readable listing no step of these
\* calls ends the run in failure.
C24_TimeoutNeverFatal ==
  [][\A r \in Runs :
       (/\ run[r].pc \in {"classroom", "assignments", "process"}
        /\ ClassroomListed
        /\ parse_assignments_list(source).ok) =>
         run'[r].pc # "failed"]_vars

(***************************************************************************)
(* Runs one after the other, any call of which may fail                    *)
(***************************************************************************)
InitFaultRepeat ==
  InitWith(RepeatConfigs,
           DistinctSeqs({Assignment(2, NamePart2, XMixed),
                         Assignment(10, NamePart2Bang, XDup)}, MaxAssignments))

NextFaultRepeat == \E r \in Runs : Step(r) \/ Fault(r) \/ StartRun(r)

SpecFaultRepeat == InitFaultRepeat /\ [][NextFaultRepeat]_vars

\* The keys of the rows of a table.
Keys(table, cols) == {KeyOf(row, cols) : row \in table}

\* C25: across any sequence of sync runs, with any pattern of failures, no
\* step removes a key from the students, assignments or grades table.
C25_KeysNeverShrink ==
  [][/\ Keys(students, StudentKey) \subseteq Keys(students', StudentKey)
     /\ Keys(assignments, AssignmentKey) \subseteq Keys(assignments', AssignmentKey)
     /\ Keys(grades, GradeKey) \subseteq Keys(grades', GradeKey)]_vars

\* A later run has failed after it had written students, in a store that
\* still holds a grades row no run has written, and the leaderboard has been
\* emptied meanwhile.
C25_Witness ==
  \E r \in Runs \ {1} :
    /\ run[r].pc = "failed"
    /\ \E row \in students : row.updated_at = Now(r)
    /\ \E row \in grades : row.updated_at = 0
    /\ admin_leaderboard = {}

(***************************************************************************)
(* Runs at the same time on the same source                                *)
(***************************************************************************)
\* The two runs that execute at the same time.
Concurrent == {r \in Runs : r <= 2}

\* Both runs start at once: on a classroom of one or two assignments, or in
\* the write phase of the refresh of a class of one or two batches whose
\* leaderboard each run has computed.
InitConcurrent ==
  \/ /\ config \in RepeatConfigs
     /\ source \in DistinctSeqs({Assignment(1, NameLab, XTies),
                                 Assignment(2, NamePart2, XMixed)}, MaxAssignments)
     /\ default_has_fork \in BOOLEAN
     /\ \E s \in InitialStores(default_has_fork) :
          /\ students = s.students
          /\ assignments = s.assignments
          /\ grades = s.grades
          /\ admin_leaderboard = s.admin_leaderboard
     /\ run = [r \in Runs |->
                 IF r \in Concurrent THEN [IdleRun EXCEPT !.pc = "classroom"]
                 ELSE IdleRun]
     /\ fn = NoCall
  \/ /\ config \in RepeatConfigs
     /\ source = <<>>
     /\ default_has_fork \in BOOLEAN
     /\ \E n \in {1, MaxStudents}, old_rows \in BOOLEAN :
          LET s == ClassStore(n, default_has_fork, old_rows) IN
          /\ students = s.students
          /\ assignments = s.assignments
          /\ grades = s.grades
          /\ admin_leaderboard = s.admin_leaderboard
          /\ run = [r \in Runs |->
                      IF r \in Concurrent
                      THEN [IdleRun EXCEPT
                              !.pc = "clear",
                              !.leaderboard_data =
                                 ComputeLeaderboard(SetToSeq(s.students), <<>>, <<>>)]
                      ELSE IdleRun]
     /\ fn = NoCall

\* The store serves one request at a time; the requests of the runs come in
\* any order.  No call fails but the insert of a batch that holds a username
\* another run has inserted.
NextConcurrent == \E r \in Concurrent : Step(r) \/ UpsertIndividual(r)

SpecConcurrent == InitConcurrent /\ [][NextConcurrent]_vars

\* The rows a refresh alone writes for the tables as they are.
SingleRunLeaderboard ==
  {Merge(LeaderboardDefaults, student) :
     student \in Range(ComputeLeaderboard(SetToSeq(students), SetToSeq(grades),
                                          SetToSeq(assignments)))}

\* C26: when sync runs over identical source data execute concurrently, their
\* store operations interleaved in any order, then once all have finished
\* every table holds at most one row per natural key and the leaderboard is
\* the one a single run produces.
C26_ConcurrentRuns ==
  (\A r \in Concurrent : Finished(r)) =>
    /\ UniqueKeys(students, StudentKey)
    /\ UniqueKeys(assignments, AssignmentKey)
    /\ UniqueKeys(grades, GradeKey)
    /\ UniqueKeys(admin_leaderboard, LeaderboardKey)
    /\ (\E r \in Concurrent : run[r].pc = "done" /\ run[r].leaderboard_data # <<>>) =>
         admin_leaderboard = SingleRunLeaderboard

\* The two runs have finished the refresh of a leaderboard of two batches,
\* all of whose rows are in the table.
C26_Witness ==
  /\ \A r \in Concurrent : run[r].pc = "done"
  /\ \E r \in Concurrent : Len(run[r].leaderboard_data) > batch_size
  /\ Cardinality(admin_leaderboard) > batch_size

\* The students of run r whose lookup gave a fork with two valid timestamps.
ForkedStudents(r) ==
  {info \in Range(run[r].students_with_repo_info) :
     /\ info.has_fork
     /\ info.fork_created_at.k = "ts"
     /\ info.last_updated_at.k = "ts"}

\* C27: when the lifecycle lookup of a student succeeds with the fork flag
\* true and both timestamps valid, then after a run whose write phases all
\* succeed the leaderboard entry of the student has has_fork = true and
\* resolution_time_hours equal to the whole hours between the creation and
\* the last-update timestamp the lookup returned.
C27_ForkOnLeaderboard ==
  \A r \in Runs :
    (LastFinished(r) /\ run[r].pc = "done" /\ run[r].leaderboard_data # <<>>) =>
      \A info \in ForkedStudents(r) :
        \E row \in admin_leaderboard :
          /\ row.github_username = info.github_username
          /\ row.has_fork = TRUE
          /\ row.resolution_time_hours =
               calculate_resolution_time(info.fork_created_at, info.last_updated_at)

(***************************************************************************)
(* calculate_resolution_time on its own (lines 396-424)                    *)
(***************************************************************************)
MaxStamp == 130

\* The timestamps a repository may carry: a minute of the clock, a string
\* that does not parse, or none.
Stamps == {T(m) : m \in 0..MaxStamp} \cup {TBad, TNull}

InitResolution ==
  /\ fn \in [created_at : Stamps, updated_at : Stamps, result : {Null}, applied : {FALSE}]
  /\ config \in RepeatConfigs
  /\ source = <<>>
  /\ default_has_fork = FALSE
  /\ students = {}
  /\ assignments = {}
  /\ grades = {}
  /\ admin_leaderboard = {}
  /\ run = [r \in Runs |-> IdleRun]

ApplyResolutionTime ==
  /\ ~fn.applied
  /\ fn' = [fn EXCEPT !.result = calculate_resolution_time(fn.created_at, fn.updated_at),
                      !.applied = TRUE]
  /\ UNCHANGED <<config, source, default_has_fork, store, run>>

SpecResolution == InitResolution /\ [][ApplyResolutionTime]_vars

\* C28: for every pair of valid timestamps calculate_resolution_time returns
\* floor((last_update - creation) / one hour), and the value is an integer
\* greater than or equal to 0.
C28_ResolutionFloor ==
  (fn.applied /\ fn.created_at.k = "ts" /\ fn.updated_at.k = "ts") =>
    /\ fn.result = N((fn.updated_at.t - fn.created_at.t) \div MinutesPerHour)
    /\ fn.result.v >= 0

\* The lookup of the repository reference has a non-success outcome: there
\* is no reference or it is malformed, the request fails or answers another
\* status than 200, or a timestamp of the answer does not parse.
LookupFails(url) ==
  LET repo_info == get_repository_info(url) IN
  \/ ~repo_info.ok
  \/ repo_info.created_at.k = "bad"
  \/ repo_info.updated_at.k = "bad"

\* The rows of the extract that bring a student the run has not met before.
NewStudentRows(info, rows) ==
  {k \in 1..Len(rows) :
     /\ ~KnownStudent(info, Strip(rows[k].github_username.s))
     /\ \A m \in 1..(k - 1) : Strip(rows[m].github_username.s) #
                                Strip(rows[k].github_username.s)}

\* C29: any non-success outcome of a lifecycle lookup (malformed or missing
\* repository reference, not-found, rate-limited, other status, request
\* exception, malformed timestamps) records the student with has_fork = false
\* and no resolution time, and the run goes on with the next student and the
\* next assignment.
C29_FailedLookupRecorded ==
  [][\A r \in Runs :
       (/\ run[r].pc = "process"
        /\ run[r].queue # <<>>
        /\ Processed(Head(run[r].queue))
        /\ run'[r] # run[r]) =>
         /\ run'[r].pc = "process"
         /\ LET rows == Head(run[r].queue).extract.rows IN
            \A k \in NewStudentRows(run[r].students_with_repo_info, rows) :
              LookupFails(rows[k].student_repository_url) =>
                \E i \in 1..Len(run'[r].students_with_repo_info) :
                  LET student == run'[r].students_with_repo_info[i] IN
                  /\ student.github_username = Strip(rows[k].github_username.s)
                  /\ student.has_fork = FALSE
                  /\ student.resolution_time_hours = Null]_vars

\* The ranking positions the leaderboard table holds.
StoredPositions == {row.ranking_position : row \in admin_leaderboard}

\* C30: after every completed run, the runs in which the delete of the
\* leaderboard or some of its inserts failed included, no two rows of the
\* stored leaderboard share a ranking_position and the stored positions are
\* exactly 1..n for the n stored rows.
C30_StoredPositionsDense ==
  \A r \in Runs :
    (LastFinished(r) /\ run[r].pc = "done") =>
      /\ \A row, other \in admin_leaderboard :
           row.ranking_position = other.ranking_position => row = other
      /\ StoredPositions = 1..Cardinality(admin_leaderboard)

\* The columns of the lifecycle of a student.
LifecycleColumns == {"fork_created_at", "last_updated_at", "resolution_time_hours"}

\* The value is None.
Unset(value) == value.k = "null"

\* The students row of the username, as a set of at most one row.
StudentRow(table, github_username) ==
  {row \in table : row.github_username = github_username}

OrphanStore(has_fork) == [SeededStore(has_fork) EXCEPT !.students = {}]

InitOrphans ==
  /\ config \in RepeatConfigs
  /\ source \in DistinctSeqs({Assignment(9, NameLab, XNoUrl),
                               Assignment(5, NameLab, XNaN),
                               Assignment(2, NamePart2, XMixed)}, MaxAssignments)
  /\ default_has_fork \in BOOLEAN
  /\ \E s \in InitialStores(default_has_fork) \cup {OrphanStore(default_has_fork)} :
       /\ students = s.students
       /\ assignments = s.assignments
       /\ grades = s.grades
       /\ admin_leaderboard = s.admin_leaderboard
       /\ run = [r \in Runs |->
                   IF r = 1
                   THEN [IdleRun EXCEPT !.pc = "classroom",
                                        !.leaderboard_at_start = s.admin_leaderboard]
                   ELSE IdleRun]
  /\ fn = NoCall

SpecOrphans == InitOrphans /\ [][NextRepeat]_vars

\* C32: when the students table is empty at the time the refresh reads it,
\* the refresh returns without clearing or writing the leaderboard table:
\* the run ends and every leaderboard row is as it was when the run started,
\* even if the run has written grades before.
C32_EmptyStudentsNoRefresh ==
  [][\A r \in Runs :
       (run[r].pc = "read_students" /\ students = {} /\ run'[r] # run[r]) =>
         /\ run'[r].pc = "done"
         /\ admin_leaderboard' = admin_leaderboard
         /\ admin_leaderboard = run[r].leaderboard_at_start]_vars

\* A run has ended on an empty students table after it wrote grades, and the
\* leaderboard rows of an earlier sync are still stored.
C32_Witness ==
  \E r \in Runs :
    /\ LastFinished(r)
    /\ run[r].pc = "done"
    /\ students = {}
    /\ \E grade \in grades : grade.updated_at = Now(r)
    /\ admin_leaderboard # {}
    /\ admin_leaderboard = run[r].leaderboard_at_start

====
